---- MODULE Spec2Model ----
(***************************************************************************)
(* TOFPA (Take-Off Flight Path Area) plugin: surface construction,         *)
(* obstacle evaluation and shadow analysis.                                *)
(*                                                                         *)
(* Two implementations of the obstacle engine live in the repository:      *)
(*   "core"   - core/obstacles.py, class ObstacleAnalyzer                  *)
(*   "legacy" - tofpa.py, the private methods of class TOFPA               *)
(* The variable impl says which one a behaviour runs; either engine is     *)
(* driven by the batch loop of TOFPA.process_survey_obstacles.             *)
(*                                                                         *)
(* Units.  Planar coordinates are metres, elevations and heights are       *)
(* millimetres, angles are millidegrees; all are integers.  Comparisons    *)
(* of distances, slopes and elevation angles are made exactly (by squares  *)
(* and cross-multiplication), i.e. over the reals, not in floating point.  *)
(* QGIS calls are modelled by the contract the source relies on, except    *)
(* where the repository itself records that a call fails (BUG-01).         *)
(***************************************************************************)
EXTENDS Integers, Sequences, FiniteSets, TLC

VARIABLES
    impl,              \* "core" | "legacy": which obstacle engine runs
    params,            \* the arguments of the current call
    pc,                \* position of the run
    surface_layer,     \* tofpa_surface_layer: sequence of features
    features,          \* the obstacle features of the batch, in order
    fidx,              \* index of the next feature of the batch loop
    layers_info,       \* the five obstacle memory layers
    obstacles_data,    \* the list of obstacle dicts
    total_obstacles,   \* counter of process_survey_obstacles
    critical_obstacles,\* counter of process_survey_obstacles
    shadow_results,    \* result dict of perform_shadow_analysis
    history,           \* history: the results of the calls that returned True, oldest first
    project_layers,    \* names of the layers added to the QgsProject, in order
    exports,           \* the export calls made, in order
    messages           \* the messages the current call pushed to the message bar

vars == <<impl, params, pc, surface_layer, features, fidx, layers_info,
          obstacles_data, total_obstacles, critical_obstacles,
          shadow_results, history, project_layers, exports, messages>>

-----------------------------------------------------------------------------
(* Bounds of the model *)

\* number of obstacle records handed to one shadow analysis call
NumRecords == 3

\* number of times Calculate is pressed with one set of layers
MaxRuns == 2

-----------------------------------------------------------------------------
(* Small arithmetic *)

Abs(n) == IF n < 0 THEN -n ELSE n

Max(a, b) == IF a >= b THEN a ELSE b

RECURSIVE GCD(_, _)
GCD(a, b) == IF b = 0 THEN a ELSE GCD(b, a % b)

\* exact division of n by a positive divisor of n (0 when d = 0)
Quot(n, d) == IF d = 0 THEN 0 ELSE IF n >= 0 THEN n \div d ELSE -((-n) \div d)

-----------------------------------------------------------------------------
(* Geometry kernel: QgsPoint *)

Point2D(px, py) == [x |-> px, y |-> py, z |-> 0, is3D |-> FALSE]

Point3D(px, py, pz) == [x |-> px, y |-> py, z |-> pz, is3D |-> TRUE]

\* QgsPoint.distance is the planar (2-D) distance; the model keeps its square
DistSq(a, b) == (a.x - b.x) * (a.x - b.x) + (a.y - b.y) * (a.y - b.y)

\* atan2(dx, dy) * 180 / pi in millidegrees, for the primitive directions
\* (gcd(|dx|, |dy|) = 1) the model's inputs produce
AzimuthTable ==
       <<0, 1>> :> 0 @@ <<1, 1>> :> 45000 @@ <<1, 0>> :> 90000 @@
       <<1, -1>> :> 135000 @@ <<0, -1>> :> 180000 @@ <<-1, -1>> :> -135000 @@
       <<-1, 0>> :> -90000 @@ <<-1, 1>> :> -45000 @@
       <<2, -1>> :> 116565 @@ <<2, -3>> :> 146310 @@ <<1, -3>> :> 161565 @@
       <<1, 2>> :> 26565 @@ <<2, 1>> :> 63435 @@ <<-1, 2>> :> -26565 @@
       <<-2, 1>> :> -63435 @@ <<1, 3>> :> 18435 @@ <<-1, 3>> :> -18435 @@
       <<1, 4>> :> 14036 @@ <<-1, 4>> :> -14036 @@ <<3, 1>> :> 71565 @@
       <<-3, 1>> :> -71565 @@ <<1, -2>> :> 153435 @@ <<-1, -2>> :> -153435

\* QgsPoint.azimuth(other): degrees clockwise from north, in (-180, 180];
\* atan2(0, 0) = 0 for coincident points
Azimuth(from_point, to_point) ==
    LET dx == to_point.x - from_point.x
        dy == to_point.y - from_point.y
        g  == GCD(Abs(dx), Abs(dy))
    IN  IF g = 0 THEN 0 ELSE AzimuthTable[<<Quot(dx, g), Quot(dy, g)>>]

\* a / sqrt(da) > b / sqrt(db) over the reals, for da > 0 and db > 0
\* (a, b and da, db are first divided by their gcds, which keeps the sign
\* of the comparison)
SlopeGreater(a, da, b, db) ==
    LET g  == GCD(Abs(a), Abs(b))
        h  == GCD(da, db)
        a1 == Quot(a, g)
        b1 == Quot(b, g)
        d1 == Quot(da, h)
        d2 == Quot(db, h)
    IN  IF a > 0 /\ b <= 0 THEN TRUE
        ELSE IF a > 0 THEN a1 * a1 * d2 > b1 * b1 * d1
        ELSE IF a = 0 THEN b < 0
        ELSE IF b >= 0 THEN FALSE
        ELSE a1 * a1 * d2 < b1 * b1 * d1

-----------------------------------------------------------------------------
(* Optional values: <<>> is None (or an absent key), <<v>> is the value v *)

None == <<>>

Some(v) == <<v>>

Indices(n) == [i \in 1..n |-> i]

-----------------------------------------------------------------------------
(* Takeoff reference point *)

\* ObstacleAnalyzer.get_takeoff_reference_point: the first polygon feature
\* whose exterior ring has at least 6 vertices gives the midpoint of ring
\* vertices [3] and [4] (0-based); reading the ring of a polygon without
\* rings raises, and any exception gives None
RECURSIVE core_takeoff_point(_, _)
core_takeoff_point(layer, i) ==
    IF i > Len(layer) THEN None
    ELSE IF layer[i].geom_type # "polygon" THEN core_takeoff_point(layer, i + 1)
    ELSE IF layer[i].rings = <<>> THEN None
    ELSE LET vertices == layer[i].rings[1]
             p1 == vertices[4]
             p2 == vertices[5]
         IN  IF Len(vertices) >= 6
             THEN Some(Point3D((p1.x + p2.x) \div 2, (p1.y + p2.y) \div 2,
                               IF p1.is3D THEN (p1.z + p2.z) \div 2 ELSE 0))
             ELSE core_takeoff_point(layer, i + 1)

\* TOFPA._get_takeoff_reference_point: at least 4 ring vertices, and the
\* midpoint of ring vertices [0] and [-2]
RECURSIVE legacy_takeoff_point(_, _)
legacy_takeoff_point(layer, i) ==
    IF i > Len(layer) THEN None
    ELSE IF layer[i].geom_type # "polygon" THEN legacy_takeoff_point(layer, i + 1)
    ELSE IF layer[i].rings = <<>> THEN None
    ELSE LET vertices == layer[i].rings[1]
             p1 == vertices[1]
             p2 == vertices[Len(vertices) - 1]
         IN  IF Len(vertices) >= 4
             THEN Some(Point3D((p1.x + p2.x) \div 2, (p1.y + p2.y) \div 2,
                               IF p1.is3D THEN (p1.z + p2.z) \div 2 ELSE 0))
             ELSE legacy_takeoff_point(layer, i + 1)

get_takeoff_reference_point(layer) ==
    IF impl = "core" THEN core_takeoff_point(layer, 1)
    ELSE legacy_takeoff_point(layer, 1)

-----------------------------------------------------------------------------
(* Shadow analysis *)

\* calculate_bearing: QgsPoint.azimuth does not raise, so the atan2
\* fallback of the except branch is never taken
calculate_bearing(from_point, to_point) == Azimuth(from_point, to_point)

\* the wrapped difference of two bearings of is_obstacle_shadowed
angular_difference(target_angle, other_angle) ==
    LET diff == Abs(target_angle - other_angle)
    IN  IF diff > 180000 THEN 360000 - diff ELSE diff

\* variant: the elevation of the takeoff point is not subtracted
check_elevation_shadow_from_ground(takeoff_point, target_point, target_height, shadow_point, shadow_height) ==
    LET target_dist == DistSq(takeoff_point, target_point)
        shadow_dist == DistSq(takeoff_point, shadow_point)
    IN  IF target_dist <= 0 \/ shadow_dist <= 0 THEN FALSE
        ELSE SlopeGreater(shadow_height, shadow_dist, target_height, target_dist)

\* check_elevation_shadow: atan((h - tof_z) / dist) of the shadowing point
\* strictly above that of the target; False when either distance is zero
check_elevation_shadow(takeoff_point, target_point, target_height, shadow_point, shadow_height) ==
    LET target_dist == DistSq(takeoff_point, target_point)
        shadow_dist == DistSq(takeoff_point, shadow_point)
        tof_z == IF takeoff_point.is3D THEN takeoff_point.z ELSE 0
    IN  IF target_dist <= 0 \/ shadow_dist <= 0 THEN FALSE
        ELSE SlopeGreater(shadow_height - tof_z, shadow_dist,
                          target_height - tof_z, target_dist)

\* variant of the loop body: the angular test excludes the tolerance itself
shadows_below_tolerance(other, target, takeoff_point, shadow_tolerance) ==
    /\ other.feature.id # target.feature.id
    /\ ~ (DistSq(takeoff_point, other.point) >= DistSq(takeoff_point, target.point))
    /\ ~ (other.height <= target.height)
    /\ angular_difference(calculate_bearing(takeoff_point, target.point),
                          calculate_bearing(takeoff_point, other.point))
           < shadow_tolerance
    /\ check_elevation_shadow(takeoff_point, target.point, target.height,
                              other.point, other.height)

\* variant of the loop body: only the identity and the angular test
shadows_within_cone(other, target, takeoff_point, shadow_tolerance) ==
    /\ other.feature.id # target.feature.id
    /\ angular_difference(calculate_bearing(takeoff_point, target.point),
                          calculate_bearing(takeoff_point, other.point))
           <= shadow_tolerance

\* variant of the loop body: obstacles behind the target are not skipped
shadows_from_behind(other, target, takeoff_point, shadow_tolerance) ==
    /\ other.feature.id # target.feature.id
    /\ ~ (other.height <= target.height)
    /\ angular_difference(calculate_bearing(takeoff_point, target.point),
                          calculate_bearing(takeoff_point, other.point))
           <= shadow_tolerance
    /\ check_elevation_shadow(takeoff_point, target.point, target.height,
                              other.point, other.height)

\* one iteration of the loop of is_obstacle_shadowed: does `other` shadow
\* `target`
shadows(other, target, takeoff_point, shadow_tolerance) ==
    /\ other.feature.id # target.feature.id
    /\ ~ (DistSq(takeoff_point, other.point) >= DistSq(takeoff_point, target.point))
    /\ ~ (other.height <= target.height)
    /\ angular_difference(calculate_bearing(takeoff_point, target.point),
                          calculate_bearing(takeoff_point, other.point))
           <= shadow_tolerance
    /\ check_elevation_shadow(takeoff_point, target.point, target.height,
                              other.point, other.height)

\* variant of the loop: the last obstacle that shadows the target
RECURSIVE is_obstacle_shadowed_last(_, _, _, _, _, _)
is_obstacle_shadowed_last(data, t, all_obstacles, k, takeoff_point, shadow_tolerance) ==
    IF k > Len(all_obstacles) THEN 0
    ELSE LET later == is_obstacle_shadowed_last(data, t, all_obstacles, k + 1,
                                                takeoff_point, shadow_tolerance)
         IN  IF later # 0 THEN later
             ELSE IF shadows(data[all_obstacles[k]], data[t], takeoff_point,
                             shadow_tolerance)
                  THEN all_obstacles[k]
                  ELSE 0

\* variant of the loop: it ends at the target itself instead of skipping it
RECURSIVE is_obstacle_shadowed_before(_, _, _, _, _, _)
is_obstacle_shadowed_before(data, t, all_obstacles, k, takeoff_point, shadow_tolerance) ==
    IF k > Len(all_obstacles) THEN 0
    ELSE IF all_obstacles[k] = t THEN 0
    ELSE IF shadows(data[all_obstacles[k]], data[t], takeoff_point, shadow_tolerance)
         THEN all_obstacles[k]
         ELSE is_obstacle_shadowed_before(data, t, all_obstacles, k + 1,
                                          takeoff_point, shadow_tolerance)

\* is_obstacle_shadowed: the loop over all_obstacles from position k on;
\* the index (in data) of the first obstacle that shadows the target, 0 for
\* (False, None).  all_obstacles is a list of indices into data.
RECURSIVE is_obstacle_shadowed(_, _, _, _, _, _)
is_obstacle_shadowed(data, t, all_obstacles, k, takeoff_point, shadow_tolerance) ==
    IF k > Len(all_obstacles) THEN 0
    ELSE IF shadows(data[all_obstacles[k]], data[t], takeoff_point, shadow_tolerance)
         THEN all_obstacles[k]
         ELSE is_obstacle_shadowed(data, t, all_obstacles, k + 1,
                                   takeoff_point, shadow_tolerance)

\* f"Obstacle ID {id}"
shadowed_by_text(id) == Some(id)

\* variant of the in-place updates: every obstacle is searched for a
\* shadower, critical or not
analysed_data_all(data, takeoff_point, shadow_tolerance) ==
    LET critical == SelectSeq(Indices(Len(data)), LAMBDA i : data[i].is_critical)
    IN  [i \in 1..Len(data) |->
            LET by == is_obstacle_shadowed(data, i, critical, 1,
                                           takeoff_point, shadow_tolerance)
            IN  IF by # 0
                THEN [data[i] EXCEPT !.shadow_status = "SHADOWED",
                          !.shadowed_by = shadowed_by_text(data[by].feature.id)]
                ELSE [data[i] EXCEPT !.shadow_status = "VISIBLE",
                          !.shadowed_by = None]]

\* variant of the in-place updates: the status is also written to the
\* result dict of the evaluation
analysed_data_marking_info(data, takeoff_point, shadow_tolerance) ==
    LET critical == SelectSeq(Indices(Len(data)), LAMBDA i : data[i].is_critical)
    IN  [i \in 1..Len(data) |->
            IF data[i].is_critical
            THEN LET by == is_obstacle_shadowed(data, i, critical, 1,
                                                takeoff_point, shadow_tolerance)
                 IN  IF by # 0
                     THEN [data[i] EXCEPT !.shadow_status = "SHADOWED",
                               !.shadowed_by = shadowed_by_text(data[by].feature.id),
                               !.obstacle_info.intersection_type = "Shadowed"]
                     ELSE [data[i] EXCEPT !.shadow_status = "VISIBLE",
                               !.shadowed_by = None]
            ELSE [data[i] EXCEPT !.shadow_status = "NOT_APPLICABLE",
                      !.shadowed_by = None]]

\* perform_shadow_analysis, with a takeoff point: the obstacle dicts after
\* the in-place updates
analysed_data(data, takeoff_point, shadow_tolerance) ==
    LET critical == SelectSeq(Indices(Len(data)), LAMBDA i : data[i].is_critical)
    IN  [i \in 1..Len(data) |->
            IF data[i].is_critical
            THEN LET by == is_obstacle_shadowed(data, i, critical, 1,
                                                takeoff_point, shadow_tolerance)
                 IN  IF by # 0
                     THEN [data[i] EXCEPT !.shadow_status = "SHADOWED",
                               !.shadowed_by = shadowed_by_text(data[by].feature.id)]
                     ELSE [data[i] EXCEPT !.shadow_status = "VISIBLE",
                               !.shadowed_by = None]
            ELSE [data[i] EXCEPT !.shadow_status = "NOT_APPLICABLE",
                      !.shadowed_by = None]]

\* variant without the early return: a missing takeoff point is read as
\* the origin
perform_shadow_analysis_from_origin(data, layer, shadow_tolerance) ==
    LET found == get_takeoff_reference_point(layer)
        takeoff_point == IF found = None THEN Some(Point3D(0, 0, 0)) ELSE found
        all  == Indices(Len(data))
        done == analysed_data(data, takeoff_point[1], shadow_tolerance)
    IN  [data |-> done,
         shadowed_obstacles |->
             SelectSeq(all, LAMBDA i : done[i].shadow_status = "SHADOWED"),
         visible_obstacles |->
             SelectSeq(all, LAMBDA i : done[i].shadow_status = "VISIBLE")
             \o SelectSeq(all, LAMBDA i : ~ done[i].is_critical),
         takeoff_point |-> found]

\* variant: the obstacles that are not critical are left out of the
\* visible list
perform_shadow_analysis_critical_only(data, layer, shadow_tolerance) ==
    LET takeoff_point == get_takeoff_reference_point(layer)
        all  == Indices(Len(data))
        done == analysed_data(data, takeoff_point[1], shadow_tolerance)
    IN  IF takeoff_point = None
        THEN [data |-> data,
              shadowed_obstacles |-> <<>>,
              visible_obstacles |-> all,
              takeoff_point |-> None]
        ELSE [data |-> done,
              shadowed_obstacles |->
                  SelectSeq(all, LAMBDA i : done[i].shadow_status = "SHADOWED"),
              visible_obstacles |->
                  SelectSeq(all, LAMBDA i : done[i].shadow_status = "VISIBLE"),
              takeoff_point |-> takeoff_point]

\* perform_shadow_analysis: the result dict; its lists hold references to
\* the obstacle dicts (indices into obstacles_data)
perform_shadow_analysis(data, layer, shadow_tolerance) ==
    LET takeoff_point == get_takeoff_reference_point(layer)
        all  == Indices(Len(data))
        done == analysed_data(data, takeoff_point[1], shadow_tolerance)
    IN  IF takeoff_point = None
        THEN [data |-> data,
              shadowed_obstacles |-> <<>>,
              visible_obstacles |-> all,
              takeoff_point |-> None]
        ELSE [data |-> done,
              shadowed_obstacles |->
                  SelectSeq(all, LAMBDA i : done[i].shadow_status = "SHADOWED"),
              visible_obstacles |->
                  SelectSeq(all, LAMBDA i : done[i].shadow_status = "VISIBLE")
                  \o SelectSeq(all, LAMBDA i : ~ done[i].is_critical),
              takeoff_point |-> takeoff_point]

-----------------------------------------------------------------------------
(* Obstacle memory layers and shadow result layers *)

\* the hardcoded buffer attribute of TOFPA._apply_shadow_results
LegacyBufferAttribute == 10

\* five memory layers without features
NoLayers ==
    [critical_layer |-> <<>>, safe_layer |-> <<>>, shadowed_layer |-> <<>>,
     visible_layer |-> <<>>, buffer_layer |-> <<>>]

\* variant: the layers of the previous call are used again
reuse_layers == layers_info

\* create_layers / _create_obstacles_layers: five new, empty memory layers
create_layers == NoLayers

\* the point feature apply_shadow_results builds for one obstacle dict;
\* obstacle.get('shadow_status', 'VISIBLE') reads an absent key as VISIBLE
shadow_feature(obstacle, buffer_distance) ==
    [id |-> obstacle.feature.id,
     geometry |-> obstacle.point,
     height |-> obstacle.height,
     buffer_m |-> IF impl = "core" THEN buffer_distance ELSE LegacyBufferAttribute,
     status |-> "CRITICAL",
     intersection |-> obstacle.obstacle_info.intersection_type,
     shadow_status |-> IF obstacle.shadow_status = "UNSET" THEN "VISIBLE"
                       ELSE obstacle.shadow_status,
     shadowed_by |-> obstacle.shadowed_by]

\* the features apply_shadow_results adds for one result list: the critical
\* obstacles of the list, in order
RECURSIVE shadow_features(_, _, _, _)
shadow_features(data, list, k, buffer_distance) ==
    IF k > Len(list) THEN <<>>
    ELSE (IF data[list[k]].is_critical
          THEN <<shadow_feature(data[list[k]], buffer_distance)>>
          ELSE <<>>)
         \o shadow_features(data, list, k + 1, buffer_distance)

\* variant: a feature for every obstacle of the two result lists
apply_shadow_results_unfiltered(info, data, results, buffer_distance) ==
    [info EXCEPT
        !.shadowed_layer = @ \o [k \in 1..Len(results.shadowed_obstacles) |->
            shadow_feature(data[results.shadowed_obstacles[k]], buffer_distance)],
        !.visible_layer = @ \o [k \in 1..Len(results.visible_obstacles) |->
            shadow_feature(data[results.visible_obstacles[k]], buffer_distance)]]

\* apply_shadow_results / _apply_shadow_results
apply_shadow_results(info, data, results, buffer_distance) ==
    [info EXCEPT
        !.shadowed_layer = @ \o shadow_features(data, results.shadowed_obstacles,
                                                1, buffer_distance),
        !.visible_layer = @ \o shadow_features(data, results.visible_obstacles,
                                               1, buffer_distance)]

-----------------------------------------------------------------------------
(* The obstacle dict process_survey_obstacles appends for one feature *)

obstacle_dict(feature, obstacle_info) ==
    [feature |-> feature,
     obstacle_info |-> obstacle_info,
     point |-> obstacle_info.obstacle_point,
     height |-> obstacle_info.height,
     is_critical |-> obstacle_info.is_critical,
     shadow_status |-> "UNSET",
     shadowed_by |-> None]

\* the result dict of analyze_single
obstacle_info_of(px, py, obstacle_height, is_critical) ==
    [is_critical |-> is_critical,
     height |-> obstacle_height,
     intersection_type |-> IF is_critical THEN "Buffer intersects TOFPA surface"
                           ELSE "None",
     obstacle_point |-> Point3D(px, py, obstacle_height)]

\* result dict before any shadow analysis (process_survey_obstacles:495)
no_shadow_results(data) ==
    [shadowed_obstacles |-> <<>>,
     visible_obstacles |-> Indices(Len(data)),
     takeoff_point |-> None]

-----------------------------------------------------------------------------
(* Call parameters *)

\* the geometry of the runway feature: a centre line heading north, and
\* one heading east, both ending at the origin
RunwayNorth == <<Point2D(0, -1000), Point2D(0, 0)>>

RunwayEast == <<Point2D(-1000, 0), Point2D(0, 0)>>

\* the defaults of the dock widget and of ObstacleParams
\* a layer the project holds: the number of its features and of its
\* selected features
Layer(all, selected) == [all |-> all, selected |-> selected]

\* the obstacles layer of the project, by the names of its fields
ObstaclesLayer(field_names) == [field_names |-> field_names]

DefaultParams ==
    [runway_layer |-> Some(Layer(1, 0)), threshold_layer |-> Some(Layer(1, 0)),
     use_selected_feature |-> FALSE, export_kmz |-> FALSE,
     export_aixm |-> FALSE,
     obstacles_layer_id |-> Some("obstacles"),
     obstacles_layer |-> Some(ObstaclesLayer({"height"})),
     runway |-> RunwayNorth, threshold |-> Point2D(0, 0),
     width_tofpa |-> 180, max_width_tofpa |-> 1800, cwy_length |-> 0,
     z0 |-> 0, ze |-> 0, s |-> 0, include_obstacles |-> TRUE,
     height_field |-> None, buffer_distance |-> 10, min_height |-> 5000,
     enable_shadow_analysis |-> TRUE, shadow_tolerance |-> 5000]

-----------------------------------------------------------------------------
(* Shadow analysis called on a list of obstacle dicts *)

\* a small six-vertex surface ring in the vertex order of
\* create_tofpa_surface (far right, far left, mid left, near left, near
\* right, mid right, closing vertex); near_z is the elevation of its near
\* edge
HexRing(near_z) ==
    << Point3D(-2, 3, near_z + 2), Point3D(2, 3, near_z + 2),
       Point3D(2, 1, near_z), Point3D(1, 0, near_z), Point3D(-1, 0, near_z),
       Point3D(-2, 1, near_z), Point3D(-2, 3, near_z + 2) >>

Flat(ring) == [i \in 1..Len(ring) |-> Point2D(ring[i].x, ring[i].y)]

PolygonFeature(ring) == [geom_type |-> "polygon", rings |-> <<ring>>]

\* a closed triangle (4 ring vertices)
TriangleRing == << Point3D(-2, 0, 3), Point3D(0, 3, 3), Point3D(2, 0, 3),
                   Point3D(-2, 0, 3) >>

LineFeature == [geom_type |-> "line", rings |-> <<>>]

\* a polygon without rings: reading its exterior ring raises
EmptyPolygonFeature == [geom_type |-> "polygon", rings |-> <<>>]

\* the surface layer of a call: a six-vertex surface
HexLayers == { <<PolygonFeature(HexRing(3))>> }

\* other surface layers: a 2-D surface, a surface that follows a line
\* feature, and layers that are empty, hold no polygon, hold a polygon
\* without rings, or hold a ring of too few vertices
OtherLayers ==
    { <<PolygonFeature(Flat(HexRing(0)))>>,
      <<LineFeature, PolygonFeature(HexRing(3))>>,
      <<>>,
      <<LineFeature>>,
      <<EmptyPolygonFeature>>,
      <<EmptyPolygonFeature, PolygonFeature(HexRing(3))>>,
      <<PolygonFeature(TriangleRing)>>,
      <<PolygonFeature(TriangleRing), PolygonFeature(HexRing(3))>> }

ShadowPositions == { <<0, 0>>, <<0, -1>>, <<-1, -1>>, <<-1, 1>>, <<-2, 2>> }

ShadowHeights == { 1, 2, 4 }

ShadowTolerances == { 0, 45000 }

\* the feature id of the k-th record of a list
FeatureIdOf(k) == 10 * k

\* the analyze_single results of critical obstacles at the positions and
\* of the heights
CriticalResults(positions, heights) ==
    { obstacle_info_of(p[1], p[2], h, TRUE) : p \in positions, h \in heights }

\* results handed to an analysis over a six-vertex surface: the critical
\* ones, a low obstacle that is not critical, and a high one close to the
\* takeoff point that is not critical
ShadowResults ==
    CriticalResults(ShadowPositions, ShadowHeights)
        \cup { obstacle_info_of(-1, -1, 1, FALSE), obstacle_info_of(-1, 1, 4, FALSE) }

\* results handed to an analysis over another surface layer
OtherResults ==
    CriticalResults({<<0, -1>>, <<0, -2>>, <<-1, -1>>}, {1, 4})
        \cup { obstacle_info_of(0, -2, 1, FALSE) }

\* the lists of NumRecords obstacle dicts over the results
RecordLists(results) ==
    { [k \in 1..NumRecords |-> obstacle_dict([id |-> FeatureIdOf(k)], r[k])] :
        r \in [1..NumRecords -> results] }

InitShadow ==
    /\ impl \in {"core", "legacy"}
    /\ \/ /\ surface_layer \in HexLayers
          /\ obstacles_data \in RecordLists(ShadowResults)
          /\ \E tol \in ShadowTolerances :
                params = [DefaultParams EXCEPT !.shadow_tolerance = tol]
       \/ /\ surface_layer \in OtherLayers
          /\ obstacles_data \in RecordLists(OtherResults)
          /\ params = [DefaultParams EXCEPT !.shadow_tolerance = 45000]
    /\ pc = "shadow"
    /\ features = <<>>
    /\ fidx = 1
    /\ layers_info = NoLayers
    /\ total_obstacles = Len(obstacles_data)
    /\ critical_obstacles = 0
    /\ shadow_results = no_shadow_results(obstacles_data)
    /\ history = <<>>
    /\ project_layers = <<>>
    /\ exports = <<>>
    /\ messages = <<>>

\* shadow_results = perform_shadow_analysis(obstacles_data, layer, tolerance)
PerformShadowAnalysis ==
    /\ pc = "shadow"
    /\ \E r \in {perform_shadow_analysis(obstacles_data, surface_layer,
                                         params.shadow_tolerance)} :
           /\ obstacles_data' = r.data
           /\ shadow_results' = [shadowed_obstacles |-> r.shadowed_obstacles,
                                 visible_obstacles |-> r.visible_obstacles,
                                 takeoff_point |-> r.takeoff_point]
    /\ pc' = "apply"
    /\ UNCHANGED <<impl, params, surface_layer, features, fidx, layers_info,
                   total_obstacles, critical_obstacles, history,
                   project_layers, exports, messages>>

\* apply_shadow_results(layers_info, shadow_results, buffer_distance)
ApplyShadowResults ==
    /\ pc = "apply"
    /\ layers_info' = apply_shadow_results(layers_info, obstacles_data,
                                           shadow_results, params.buffer_distance)
    /\ pc' = "finalize"
    /\ UNCHANGED <<impl, params, surface_layer, features, fidx, obstacles_data,
                   total_obstacles, critical_obstacles, shadow_results, history,
                   project_layers, exports, messages>>

NextShadow == PerformShadowAnalysis \/ ApplyShadowResults

SpecShadow == InitShadow /\ [][NextShadow]_vars

\* the state in which the analysis of the records over the surface layer,
\* with the tolerance, is about to start
ShadowCall(data, layer, tolerance) ==
    /\ impl \in {"core", "legacy"}
    /\ obstacles_data = data
    /\ surface_layer = layer
    /\ params = [DefaultParams EXCEPT !.shadow_tolerance = tolerance]
    /\ pc = "shadow"
    /\ features = <<>>
    /\ fidx = 1
    /\ layers_info = NoLayers
    /\ total_obstacles = Len(data)
    /\ critical_obstacles = 0
    /\ shadow_results = no_shadow_results(data)
    /\ history = <<>>
    /\ project_layers = <<>>
    /\ exports = <<>>
    /\ messages = <<>>

\* the analysis called on every list of three obstacle dicts, over a
\* six-vertex surface with and without z: the inputs of the elevation
\* test are the takeoff point and every pair of records of the list
InitElevation ==
    \E a \in ShadowResults, b \in ShadowResults, c \in ShadowResults,
       layer \in HexLayers \cup { <<PolygonFeature(Flat(HexRing(0)))>> } :
        ShadowCall(<< obstacle_dict([id |-> FeatureIdOf(1)], a),
                      obstacle_dict([id |-> FeatureIdOf(2)], b),
                      obstacle_dict([id |-> FeatureIdOf(3)], c) >>,
                   layer, 45000)

SpecElevation == InitElevation /\ [][NextShadow]_vars

\* results handed to an analysis whose input order is varied: low and
\* high critical obstacles on and beside the line through both takeoff
\* points, and a high obstacle that is not critical
OrderResults ==
    CriticalResults({ <<-2, 2>>, <<-1, 1>>, <<0, 0>>, <<-1, -1>> }, { 1, 4 })
        \cup { obstacle_info_of(-1, 1, 4, FALSE) }

\* the analysis called on every list of NumRecords of these obstacle dicts
InitOrder ==
    \E data \in RecordLists(OrderResults), layer \in HexLayers :
        ShadowCall(data, layer, 45000)

SpecOrder == InitOrder /\ [][NextShadow]_vars

-----------------------------------------------------------------------------
(* Surface construction: TOFPA.create_tofpa_surface *)

\* length of the takeoff climb surface, metres
SurfaceLength == 10000

\* climb of the surface, millimetres per metre (0.012)
ClimbPerMetre == 12

\* QgsPoint.project(distance, azimuth), for an azimuth that is a multiple
\* of 90 degrees; the z value is kept
project(p, distance, azimuth) ==
    LET a == azimuth % 360000
    IN  CASE a = 0      -> [p EXCEPT !.y = @ + distance]
          [] a = 90000  -> [p EXCEPT !.x = @ + distance]
          [] a = 180000 -> [p EXCEPT !.y = @ - distance]
          [] a = 270000 -> [p EXCEPT !.x = @ - distance]

\* QgsPoint.setZ: no effect on a point without a z dimension
setZ(p, z) == IF p.is3D THEN [p EXCEPT !.z = z] ELSE p

\* QgsPoint.addZValue
addZValue(p, z) == IF p.is3D THEN p ELSE [p EXCEPT !.z = z, !.is3D = TRUE]

\* QgsProject.mapLayer(layer_id) and TOFPA.get_single_feature: the one
\* feature of the layer, or of its selection with use_selected_feature;
\* None (after an error message) when the layer is missing or does not
\* resolve to exactly one feature
first_feature(layer, use_selected_feature, feature) ==
    IF layer = None THEN None
    ELSE IF (IF use_selected_feature THEN layer[1].selected
             ELSE layer[1].all) >= 1
    THEN Some(feature) ELSE None

get_single_feature(layer, use_selected_feature, feature) ==
    IF layer = None THEN None
    ELSE IF (IF use_selected_feature THEN layer[1].selected
             ELSE layer[1].all) = 1
    THEN Some(feature) ELSE None

\* variant: only a polyline without vertices is refused
runway_is_empty(geom) == Len(geom) < 1

\* the test "len(geom) < 2" on the vertices of the runway polyline
runway_too_short(geom) == Len(geom) < 2

\* variant: the direction parameter s is not read
azimuth_start_to_end(prm) == Azimuth(prm.runway[1], prm.runway[Len(prm.runway)])

\* azimuth: the takeoff direction, from the first to the last vertex of
\* the runway for s = 0 and from the last to the first otherwise
azimuth(prm) ==
    LET geom        == prm.runway
        start_point == IF prm.s = 0 THEN geom[1] ELSE geom[Len(geom)]
        end_point   == IF prm.s = 0 THEN geom[Len(geom)] ELSE geom[1]
    IN  Azimuth(start_point, end_point)

\* variant: the start of the surface keeps the elevation of the threshold
pt_01D_at_z0(prm) ==
    project(addZValue(prm.threshold, prm.z0),
            IF prm.cwy_length = 0 THEN 0 ELSE prm.cwy_length, azimuth(prm))

\* pt_01D: the start of the surface, the threshold (new_geom, with z0)
\* projected by dD along the azimuth and set to the elevation ze
pt_01D(prm) ==
    LET new_geom == addZValue(prm.threshold, prm.z0)
        dD       == IF prm.cwy_length = 0 THEN 0 ELSE prm.cwy_length
    IN  setZ(project(new_geom, dD, azimuth(prm)), prm.ze)

\* variant: the divergence is measured on the full widths
divergence_distance_full_width(prm) ==
    8 * (prm.max_width_tofpa - prm.width_tofpa)

\* (max_width_tofpa/2 - width_tofpa/2) / 0.125: the distance at which the
\* surface reaches its maximum width
divergence_distance(prm) == 4 * (prm.max_width_tofpa - prm.width_tofpa)

\* variant: the elevation of the start is kept at the end of the divergence
pt_02D_level(prm) ==
    project(pt_01D(prm), divergence_distance(prm), azimuth(prm))

\* pt_02D: the centre-line point at the end of the divergence
pt_02D(prm) ==
    setZ(project(pt_01D(prm), divergence_distance(prm), azimuth(prm)),
         prm.ze + divergence_distance(prm) * ClimbPerMetre)

\* pt_03D: the centre-line point at the end of the surface
pt_03D(prm) ==
    setZ(project(pt_01D(prm), SurfaceLength, azimuth(prm)),
         prm.ze + SurfaceLength * ClimbPerMetre)

\* variant: the ring runs through the left and right vertices in the
\* opposite order
surface_area_left_first(prm) ==
    LET half     == prm.width_tofpa \div 2
        max_half == prm.max_width_tofpa \div 2
        pt_01DL  == project(pt_01D(prm), half, azimuth(prm) + 90000)
        pt_01DR  == project(pt_01D(prm), half, azimuth(prm) - 90000)
        pt_02DL  == project(pt_02D(prm), max_half, azimuth(prm) + 90000)
        pt_02DR  == project(pt_02D(prm), max_half, azimuth(prm) - 90000)
        pt_03DL  == project(pt_03D(prm), max_half, azimuth(prm) + 90000)
        pt_03DR  == project(pt_03D(prm), max_half, azimuth(prm) - 90000)
    IN  <<pt_03DL, pt_03DR, pt_02DR, pt_01DR, pt_01DL, pt_02DL, pt_03DL>>

\* the exterior ring of the surface polygon of create_tofpa_surface;
\* QgsPolygon closes the ring, so asPolygon()[0] repeats the first vertex
surface_area(prm) ==
    LET half     == prm.width_tofpa \div 2
        max_half == prm.max_width_tofpa \div 2
        pt_01DL  == project(pt_01D(prm), half, azimuth(prm) + 90000)
        pt_01DR  == project(pt_01D(prm), half, azimuth(prm) - 90000)
        pt_02DL  == project(pt_02D(prm), max_half, azimuth(prm) + 90000)
        pt_02DR  == project(pt_02D(prm), max_half, azimuth(prm) - 90000)
        pt_03DL  == project(pt_03D(prm), max_half, azimuth(prm) + 90000)
        pt_03DR  == project(pt_03D(prm), max_half, azimuth(prm) - 90000)
    IN  <<pt_03DR, pt_03DL, pt_02DL, pt_01DL, pt_01DR, pt_02DR, pt_03DR>>

\* v_layer: the memory layer with the one surface feature
v_layer(prm) == <<PolygonFeature(surface_area(prm))>>

\* a message pushed to the message bar of QGIS
Message(level, text) == [level |-> level, text |-> text]

\* the error get_single_feature reports when it returns None
feature_error(layer, use_selected_feature, feature_type) ==
    LET n == IF use_selected_feature THEN layer[1].selected
             ELSE layer[1].all
    IN  [level |-> "Critical",
         text |-> IF use_selected_feature
                  THEN (IF n > 1 THEN "Please select only one"
                        ELSE "None selected")
                  ELSE (IF n > 1 THEN "More than one" ELSE "None found"),
         feature_type |-> feature_type]

\* the failure returns of create_tofpa_surface, in the order of the code:
\* the message of the first check that fails, or None when the surface is
\* built
surface_failure(prm) ==
    IF prm.runway_layer = None
    THEN Some(Message("Critical", "Selected runway layer not found!"))
    ELSE IF get_single_feature(prm.runway_layer, prm.use_selected_feature,
                               prm.runway) = None
    THEN Some(feature_error(prm.runway_layer, prm.use_selected_feature,
                            "runway feature"))
    ELSE IF runway_too_short(prm.runway)
    THEN Some(Message("Critical",
                      "Runway geometry must have at least 2 points!"))
    ELSE IF prm.threshold_layer = None
    THEN Some(Message("Critical", "Selected threshold layer not found!"))
    ELSE IF get_single_feature(prm.threshold_layer, prm.use_selected_feature,
                               prm.threshold) = None
    THEN Some(feature_error(prm.threshold_layer, prm.use_selected_feature,
                            "threshold feature"))
    ELSE None

\* the names of the two layers create_tofpa_surface adds to the project
SurfaceLayerNames == <<"reference_line", "RWY_TOFPA_AOC_TypeA">>

\* the layers _finalize_obstacles_layers adds to the project: the layers
\* of the shadow analysis only when they have features
layers_to_add(info) ==
    <<"Critical_Obstacles", "Safe_Obstacles", "Obstacle_Buffers">>
    \o (IF info.shadowed_layer # <<>> THEN <<"Shadowed_Obstacles">> ELSE <<>>)
    \o (IF info.visible_layer # <<>>
        THEN <<"Visible_Critical_Obstacles">> ELSE <<>>)

\* obstacles_info['layers']: all five layers of the analysis
ObstacleLayerNames ==
    <<"Critical_Obstacles", "Safe_Obstacles", "Obstacle_Buffers",
      "Shadowed_Obstacles", "Visible_Critical_Obstacles">>

\* the exceptions process_survey_obstacles raises before its batch loop, in
\* the order of the code: the text of the first one, or None when the loop
\* is entered.  feats is what the layer returns for the request
\* (selectedFeatures() with use_selected_feature, getFeatures() without).
obstacles_failure(prm, feats) ==
    IF prm.obstacles_layer = None
    THEN Some("Selected obstacles layer not found!")
    ELSE IF prm.height_field # None
            /\ prm.height_field[1] \notin prm.obstacles_layer[1].field_names
    THEN Some("Height field not found in obstacles layer!")
    ELSE IF prm.use_selected_feature /\ feats = <<>>
    THEN Some("No obstacles selected in layer.")
    ELSE IF feats = <<>>
    THEN Some("No obstacles found in layer.")
    ELSE None

\* the warning of create_tofpa_surface for an exception of the obstacle
\* stage
obstacles_warning(reason) ==
    [level |-> "Warning", text |-> "Obstacles analysis failed",
     reason |-> reason]

\* variant: nothing is exported when there are no obstacle layers
export_calls_of_analysis(prm, obstacles_layers) ==
    LET layers_to_export ==
            <<"RWY_TOFPA_AOC_TypeA", "reference_line">> \o obstacles_layers
    IN  IF obstacles_layers = <<>> THEN <<>>
        ELSE (IF prm.export_kmz
              THEN <<[format |-> "kmz", layers |-> layers_to_export]>> ELSE <<>>)
             \o (IF prm.export_aixm
                 THEN <<[format |-> "aixm", layers |-> layers_to_export]>>
                 ELSE <<>>)

\* the calls of export_to_kmz and export_to_aixm at the end of
\* create_tofpa_surface
export_calls(prm, obstacles_layers) ==
    LET layers_to_export ==
            <<"RWY_TOFPA_AOC_TypeA", "reference_line">> \o obstacles_layers
    IN  (IF prm.export_kmz
         THEN <<[format |-> "kmz", layers |-> layers_to_export]>> ELSE <<>>)
        \o (IF prm.export_aixm
            THEN <<[format |-> "aixm", layers |-> layers_to_export]>>
            ELSE <<>>)

\* the message with the counts of the obstacle analysis
analysis_message(total, critical) ==
    [level |-> "Info", text |-> "Obstacles Analysis:",
     total_obstacles |-> total, critical_obstacles |-> critical]

\* the message of on_calculate after create_tofpa_surface returned True
SuccessMessage ==
    Message("Success", "TakeOff Climb Surface Calculation Finished")

-----------------------------------------------------------------------------
(* Buffer intersection.  The 64-sided buffer polygon of GEOS is read as   *)
(* the disc of radius buffer_distance; the two differ only for contacts   *)
(* within 0.12 per cent of the radius.                                     *)

Cross(a, b, p) == (b.x - a.x) * (p.y - a.y) - (b.y - a.y) * (p.x - a.x)

\* p lies in the closed convex polygon of the ring
InRing(ring, p) ==
    \/ \A i \in 1..(Len(ring) - 1) : Cross(ring[i], ring[i + 1], p) >= 0
    \/ \A i \in 1..(Len(ring) - 1) : Cross(ring[i], ring[i + 1], p) <= 0

\* the segment a-b has a point within distance r of p
NearSegment(a, b, p, r) ==
    LET g   == GCD(Abs(b.x - a.x), Abs(b.y - a.y))
        ux  == Quot(b.x - a.x, g)
        uy  == Quot(b.y - a.y, g)
        uu  == ux * ux + uy * uy
        dot == ux * (p.x - a.x) + uy * (p.y - a.y)
        crs == ux * (p.y - a.y) - uy * (p.x - a.x)
        far(q) == Abs(p.x - q.x) > r \/ Abs(p.y - q.y) > r
    IN  IF g = 0 \/ dot <= 0 THEN ~ far(a) /\ DistSq(a, p) <= r * r
        ELSE IF dot >= g * uu THEN ~ far(b) /\ DistSq(b, p) <= r * r
        ELSE Abs(crs) <= r * uu /\ crs * crs <= r * r * uu

\* variant: the surface polygon contains the whole buffer
buffer_within(obstacle_point, buffer_distance, layer) ==
    \E i \in 1..Len(layer) :
        /\ layer[i].geom_type = "polygon"
        /\ layer[i].rings # <<>>
        /\ LET ring == layer[i].rings[1]
           IN  /\ InRing(ring, obstacle_point)
               /\ \A k \in 1..(Len(ring) - 1) :
                     ~ NearSegment(ring[k], ring[k + 1], obstacle_point,
                                   buffer_distance)

\* the loop over tofpa_surface_layer.getFeatures() of analyze_single:
\* buffer_geom.intersects(tofpa_feature.geometry()) for some feature
buffer_intersects(obstacle_point, buffer_distance, layer) ==
    \E i \in 1..Len(layer) :
        /\ layer[i].geom_type = "polygon"
        /\ layer[i].rings # <<>>
        /\ LET ring == layer[i].rings[1]
           IN  \/ InRing(ring, obstacle_point)
               \/ \E k \in 1..(Len(ring) - 1) :
                     NearSegment(ring[k], ring[k + 1], obstacle_point,
                                 buffer_distance)

-----------------------------------------------------------------------------
(* Evaluation of one obstacle: analyze_single / _analyze_single_obstacle *)

\* an obstacle feature; (px, py) is the point of a point geometry and the
\* centroid of a polygon geometry
Feature(id, geom_type, px, py, attribute) ==
    [id |-> id, geom_type |-> geom_type, x |-> px, y |-> py,
     attribute |-> attribute]

NullAttribute == [kind |-> "null", value |-> 0]

TextAttribute == [kind |-> "text", value |-> 0]

NumberAttribute(n) == [kind |-> "number", value |-> n]

\* variant: the attribute value is taken as it is
obstacle_height_unclamped(feature, height_field, min_height) ==
    IF height_field # None /\ feature.attribute.kind = "number"
    THEN feature.attribute.value
    ELSE min_height

\* the height resolution of analyze_single
obstacle_height_of(feature, height_field, min_height) ==
    IF height_field # None /\ feature.attribute.kind = "number"
    THEN Max(feature.attribute.value, min_height)
    ELSE min_height

\* the obstacle feature written to the critical or the safe layer
obstacle_feature_of(feature, obstacle_point, obstacle_height, buffer_distance, is_critical) ==
    [id |-> feature.id,
     geometry |-> obstacle_point,
     height |-> obstacle_height,
     buffer_m |-> buffer_distance,
     status |-> IF is_critical THEN "CRITICAL" ELSE "SAFE",
     intersection |-> IF is_critical THEN "Buffer intersects TOFPA surface"
                      ELSE "None",
     shadow_status |-> "",
     shadowed_by |-> None]

\* the buffer feature written to the buffer layer
buffer_feature_of(feature, obstacle_point, buffer_distance, is_critical) ==
    [id |-> feature.id,
     buffer_m |-> buffer_distance,
     status |-> IF is_critical THEN "CRITICAL" ELSE "SAFE",
     centre |-> obstacle_point]

\* analyze_single: raised says that the call ended with an exception and
\* changed nothing.  ObstacleAnalyzer.analyze_single raises for an empty
\* geometry only.  TOFPA._analyze_single_obstacle also raises where it
\* builds the buffer: QgsGeometry.fromPointXY is handed a QgsPoint and
\* rejects it with a TypeError (BUG-01 of core/obstacles.py:131).
analyze_single(feature, height_field, buffer_distance, min_height, layer, info) ==
    LET obstacle_height == obstacle_height_of(feature, height_field, min_height)
        obstacle_point  == Point3D(feature.x, feature.y, obstacle_height)
        is_critical     == buffer_intersects(obstacle_point, buffer_distance, layer)
        obstacle_feature == obstacle_feature_of(feature, obstacle_point,
                                obstacle_height, buffer_distance, is_critical)
        buffer_feature  == buffer_feature_of(feature, obstacle_point,
                                             buffer_distance, is_critical)
    IN  IF feature.geom_type = "empty" \/ impl = "legacy"
        THEN [raised |-> TRUE, layers_info |-> info,
              obstacle_info |-> obstacle_info_of(0, 0, 0, FALSE)]
        ELSE [raised |-> FALSE,
              layers_info |->
                  [info EXCEPT
                      !.critical_layer = IF is_critical
                                         THEN Append(@, obstacle_feature) ELSE @,
                      !.safe_layer = IF is_critical
                                     THEN @ ELSE Append(@, obstacle_feature),
                      !.buffer_layer = Append(@, buffer_feature)],
              obstacle_info |-> obstacle_info_of(feature.x, feature.y,
                                                 obstacle_height, is_critical)]

-----------------------------------------------------------------------------
(* The plugin run: Calculate, the batch loop, shadow analysis, layers *)

\* runway geometries: two centre lines and a line of one vertex
Runways == { RunwayNorth, RunwayEast, <<Point2D(0, 0)>> }

\* a runway polyline whose two vertices coincide
RunwayZeroLength == <<Point2D(0, 0), Point2D(0, 0)>>

\* a runway polyline with a vertex off the line between its ends, and one
\* that returns to its first vertex
RunwayBent == <<Point2D(0, -1000), Point2D(500, -500), Point2D(0, 0)>>

RunwayClosed == <<Point2D(0, 0), Point2D(0, 1000), Point2D(0, 0)>>

\* (width_tofpa, max_width_tofpa) pairs
Widths == { <<180, 1800>>, <<200, 1000>> }

\* pairs with a width of zero, a maximum below the width and a maximum
\* equal to the width
OtherWidths == { <<0, 1800>>, <<1800, 180>>, <<180, 180>> }

ClearwayLengths == { 0, 60 }

BufferDistances == { 5, 10, 20 }

\* a layer that is not in the project, and layers with no, one or two
\* features of which none, one or two are selected
LayerStates ==
    { None, Some(Layer(0, 0)), Some(Layer(1, 0)), Some(Layer(1, 1)),
      Some(Layer(2, 0)), Some(Layer(2, 1)), Some(Layer(2, 2)) }

\* obstacle layers: two obstacles on the northern axis and a feature
\* without geometry; three obstacles of default height beside the surface
\* and on either side of its near edge; a building and a mast on the
\* eastern axis; two features without geometry; a layer without features
FeatureLists ==
    { << Feature(1, "point", 0, 500, NumberAttribute(12000)),
         Feature(2, "point", 0, 1500, NumberAttribute(3000)),
         Feature(3, "empty", 0, 0, NullAttribute) >>,
      << Feature(1, "point", 205, 800, NullAttribute),
         Feature(2, "point", 0, -15, TextAttribute),
         Feature(3, "point", 0, 8, NullAttribute) >>,
      << Feature(1, "polygon", 1500, 0, TextAttribute),
         Feature(2, "point", 500, 0, NumberAttribute(12000)) >>,
      << Feature(1, "empty", 0, 0, NullAttribute),
         Feature(2, "empty", 0, 0, NumberAttribute(12000)) >>,
      << >> }

\* an obstacle layer with a feature without geometry between two obstacles
FeaturesAroundEmpty ==
    << Feature(1, "point", 0, 500, NumberAttribute(12000)),
       Feature(2, "empty", 0, 0, NumberAttribute(12000)),
       Feature(3, "point", 0, 20000, NumberAttribute(3000)) >>

\* the inputs of the obstacle analysis: runways, directions, clearways and
\* widths with every obstacle layer
AnalysisInputs ==
    /\ \E rwy \in Runways, dir \in {0, -1}, cwy \in ClearwayLengths,
          w \in Widths, field \in {None, Some("height")}, shadow \in BOOLEAN :
          params = [DefaultParams EXCEPT
                       !.runway = rwy, !.s = dir, !.cwy_length = cwy,
                       !.width_tofpa = w[1], !.max_width_tofpa = w[2],
                       !.z0 = 3000, !.ze = 2000,
                       !.height_field = field,
                       !.enable_shadow_analysis = shadow]
    /\ features \in FeatureLists

\* the inputs of the layer lookup: every state of the runway layer with a
\* good threshold layer and the reverse, with both exports requested
LayerInputs ==
    /\ \E l \in LayerStates, which \in {"runway", "threshold"},
          selected \in BOOLEAN :
          params = [DefaultParams EXCEPT
                       !.runway_layer =
                           IF which = "runway" THEN l ELSE Some(Layer(1, 1)),
                       !.threshold_layer =
                           IF which = "threshold" THEN l ELSE Some(Layer(1, 1)),
                       !.use_selected_feature = selected,
                       !.export_kmz = TRUE, !.export_aixm = TRUE,
                       !.z0 = 3000, !.ze = 2000,
                       !.height_field = Some("height")]
    /\ features = FeaturesAroundEmpty

\* the inputs of the surface construction: every width pair and runway,
\* without obstacles, with the export to KMZ requested
SurfaceInputs ==
    /\ \E rwy \in Runways \cup {RunwayZeroLength, RunwayBent, RunwayClosed},
          dir \in {0, -1},
          cwy \in ClearwayLengths, w \in Widths \cup OtherWidths,
          z \in {<<3000, 2000>>, <<100, 90>>} :
          params = [DefaultParams EXCEPT
                       !.runway = rwy, !.s = dir, !.cwy_length = cwy,
                       !.width_tofpa = w[1], !.max_width_tofpa = w[2],
                       !.z0 = z[1], !.ze = z[2],
                       !.export_kmz = TRUE]
    /\ features = <<>>

\* the inputs of the obstacle stage: an obstacles layer that is or is not
\* in the project, with or without the height field, with and without
\* features for the request, and the exports requested or not
ObstacleStageInputs ==
    /\ \E include \in BOOLEAN, id \in {None, Some("obstacles")},
          layer \in {None, Some(ObstaclesLayer({"height"}))},
          field \in {None, Some("height"), Some("elevation")},
          selected \in BOOLEAN,
          export \in {<<TRUE, TRUE>>, <<TRUE, FALSE>>, <<FALSE, FALSE>>} :
          params = [DefaultParams EXCEPT
                       !.runway_layer = Some(Layer(1, 1)),
                       !.threshold_layer = Some(Layer(1, 1)),
                       !.use_selected_feature = selected,
                       !.include_obstacles = include,
                       !.obstacles_layer_id = id,
                       !.obstacles_layer = layer,
                       !.height_field = field,
                       !.export_kmz = export[1], !.export_aixm = export[2],
                       !.z0 = 3000, !.ze = 2000]
    /\ features \in {FeaturesAroundEmpty, <<>>}

Init ==
    /\ impl \in {"core", "legacy"}
    /\ AnalysisInputs \/ LayerInputs \/ SurfaceInputs \/ ObstacleStageInputs
    /\ pc = "idle"
    /\ surface_layer = <<>>
    /\ fidx = 1
    /\ layers_info = NoLayers
    /\ obstacles_data = <<>>
    /\ total_obstacles = 0
    /\ critical_obstacles = 0
    /\ shadow_results = no_shadow_results(<<>>)
    /\ history = <<>>
    /\ project_layers = <<>>
    /\ exports = <<>>
    /\ messages = <<>>

\* what a finished call leaves behind
Outcome(prm, layer, info, data, results) ==
    [params |-> prm, surface_layer |-> layer, layers_info |-> info,
     obstacles_data |-> data, shadow_results |-> results]

\* The Calculate button: on_calculate and create_tofpa_surface up to the
\* batch loop of process_survey_obstacles.  A failed check ends the call
\* with its message (return False) before any layer is made.  Otherwise
\* the reference line and the surface are added to the project; without
\* obstacle processing, or with an obstacle layer without features (an
\* exception, reported as a warning), the call ends with the exports.
\* Between two calls the buffer distance may be changed in the panel and
\* the runway layer may be removed from the project.
Calculate ==
    /\ pc \in {"idle", "done", "failed"}
    /\ Len(history) < MaxRuns
    /\ \E b \in BufferDistances, found \in BOOLEAN :
          params' = [params EXCEPT
                        !.buffer_distance = b,
                        !.runway_layer = IF found THEN @ ELSE None]
    /\ fidx' = 1
    /\ obstacles_data' = <<>>
    /\ total_obstacles' = 0
    /\ critical_obstacles' = 0
    /\ shadow_results' = no_shadow_results(<<>>)
    /\ IF surface_failure(params') # None
       THEN /\ pc' = "failed"
            /\ messages' = <<surface_failure(params')[1]>>
            /\ UNCHANGED <<surface_layer, layers_info, project_layers,
                           exports, history>>
       ELSE /\ surface_layer' = v_layer(params')
            /\ project_layers' = project_layers \o SurfaceLayerNames
            /\ IF /\ params.include_obstacles
                  /\ params.obstacles_layer_id # None
                  /\ obstacles_failure(params', features) = None
               THEN /\ layers_info' = create_layers
                    /\ pc' = "obstacles"
                    /\ messages' = <<>>
                    /\ UNCHANGED <<history, exports>>
               ELSE /\ pc' = "done"
                    /\ messages' =
                           (IF /\ params.include_obstacles
                               /\ params.obstacles_layer_id # None
                            THEN <<obstacles_warning(
                                     obstacles_failure(params', features)[1])>>
                            ELSE <<>>) \o <<SuccessMessage>>
                    /\ exports' = exports \o export_calls(params', <<>>)
                    /\ UNCHANGED layers_info
                    /\ history' = Append(history,
                           Outcome(params', surface_layer', layers_info, <<>>,
                                   no_shadow_results(<<>>)))
    /\ UNCHANGED <<impl, features>>

\* variant of the stage that follows an iteration: the shadow analysis,
\* when enabled, does not wait for the end of the loop
next_stage_without_barrier(i, n, enable_shadow_analysis) ==
    IF enable_shadow_analysis THEN "shadow"
    ELSE IF i < n THEN "obstacles"
    ELSE "finalize"

\* the stage that follows iteration i of the batch loop over n features:
\* the next iteration, then the shadow analysis if it is enabled, then
\* the finalisation of the layers
next_stage(i, n, enable_shadow_analysis) ==
    IF i < n THEN "obstacles"
    ELSE IF enable_shadow_analysis THEN "shadow"
    ELSE "finalize"

\* one iteration of the batch loop of process_survey_obstacles; an
\* exception of analyze_single skips the feature
AnalyzeSingleObstacle ==
    /\ pc = "obstacles"
    /\ fidx <= Len(features)
    /\ LET r == analyze_single(features[fidx], params.height_field,
                               params.buffer_distance, params.min_height,
                               surface_layer, layers_info)
           data == IF r.raised THEN obstacles_data
                   ELSE Append(obstacles_data,
                               obstacle_dict(features[fidx], r.obstacle_info))
       IN  /\ layers_info' = r.layers_info
           /\ obstacles_data' = data
           /\ total_obstacles' = IF r.raised THEN total_obstacles
                                 ELSE total_obstacles + 1
           /\ critical_obstacles' =
                  IF ~ r.raised /\ r.obstacle_info.is_critical
                  THEN critical_obstacles + 1 ELSE critical_obstacles
           /\ shadow_results' = IF fidx = Len(features)
                                THEN no_shadow_results(data) ELSE shadow_results
    /\ fidx' = fidx + 1
    /\ pc' = next_stage(fidx, Len(features), params.enable_shadow_analysis)
    /\ UNCHANGED <<impl, params, surface_layer, features, history,
                   project_layers, exports, messages>>

\* finalize_layers / _finalize_obstacles_layers, the message with the
\* counts, the exports and the return of the call
FinalizeLayers ==
    /\ pc = "finalize"
    /\ pc' = "done"
    /\ project_layers' = project_layers \o layers_to_add(layers_info)
    /\ messages' = messages
                   \o <<analysis_message(total_obstacles, critical_obstacles),
                        SuccessMessage>>
    /\ exports' = exports \o export_calls(params, ObstacleLayerNames)
    /\ history' = Append(history,
           Outcome(params, surface_layer, layers_info, obstacles_data,
                   shadow_results))
    /\ UNCHANGED <<impl, params, surface_layer, features, fidx, layers_info,
                   obstacles_data, total_obstacles, critical_obstacles,
                   shadow_results>>

Next ==
    \/ Calculate
    \/ AnalyzeSingleObstacle
    \/ PerformShadowAnalysis
    \/ ApplyShadowResults
    \/ FinalizeLayers

Spec == Init /\ [][Next]_vars

-----------------------------------------------------------------------------
(* Properties of the shadow analysis *)

\* positions (in obstacles_data) of the critical obstacle records
CriticalIndices == { i \in 1..Len(obstacles_data) : obstacles_data[i].is_critical }

\* a shadow analysis has run and found a takeoff reference point
TakeoffResolved ==
    pc = "apply" /\ shadow_results.takeoff_point # None

\* min(|a - b|, 360 - |a - b|) in millidegrees
WrappedDifference(a, b) ==
    LET d == Abs(a - b)
    IN  IF d <= 360000 - d THEN d ELSE 360000 - d

Sign(n) == IF n > 0 THEN 1 ELSE IF n < 0 THEN -1 ELSE 0

\* the elevation angle atan2(a, sqrt(da)) is strictly greater than
\* atan2(b, sqrt(db)); at horizontal distance zero the angle is 90, 0 or
\* -90 degrees by the sign of the height difference
ElevationAngleAbove(a, da, b, db) ==
    IF da > 0 /\ db > 0 THEN SlopeGreater(a, da, b, db)
    ELSE IF da = 0 /\ db > 0 THEN a > 0 \/ (a = 0 /\ b < 0)
    ELSE IF da > 0 /\ db = 0 THEN b < 0 \/ (b = 0 /\ a > 0)
    ELSE Sign(a) > Sign(b)

\* the four conditions on `other` with respect to `target`: strictly
\* closer, strictly taller, within the tolerance of the target's bearing,
\* strictly greater elevation angle
FourConditions(other, target, takeoff_point, tolerance_degrees) ==
    LET tof_z == IF takeoff_point.is3D THEN takeoff_point.z ELSE 0
    IN  /\ DistSq(takeoff_point, other.point) < DistSq(takeoff_point, target.point)
        /\ other.height > target.height
        /\ WrappedDifference(Azimuth(takeoff_point, target.point),
                             Azimuth(takeoff_point, other.point))
               <= tolerance_degrees
        /\ ElevationAngleAbove(other.height - tof_z,
                               DistSq(takeoff_point, other.point),
                               target.height - tof_z,
                               DistSq(takeoff_point, target.point))

\* record o qualifies as a shadower of record t
Qualifies(o, t) ==
    /\ o \in CriticalIndices
    /\ obstacles_data[o].feature.id # obstacles_data[t].feature.id
    /\ FourConditions(obstacles_data[o], obstacles_data[t],
                      shadow_results.takeoff_point[1], params.shadow_tolerance)

\* record o is not located at the takeoff point itself
AwayFromTakeoff(o) ==
    DistSq(shadow_results.takeoff_point[1], obstacles_data[o].point) > 0

\* C1 as stated: a critical target is reported SHADOWED if and only if
\* some other critical record is strictly closer, strictly taller, within
\* the tolerance of the target's bearing and has a strictly greater
\* elevation angle.
C1_ShadowedIffOtherQualifies ==
    TakeoffResolved =>
        \A t \in CriticalIndices :
            obstacles_data[t].shadow_status = "SHADOWED"
                <=> \E o \in CriticalIndices : Qualifies(o, t)

\* C1, amended: a critical target is reported SHADOWED if and only if some
\* other critical record at a positive horizontal distance from the
\* takeoff point is strictly closer, strictly taller, within the tolerance
\* of the target's bearing and has a strictly greater elevation angle; a
\* record at equal or greater distance, or of equal or lower height, never
\* shadows the target.
C1_ShadowedIffOtherAwayFromTakeoffQualifies ==
    TakeoffResolved =>
        \A t \in CriticalIndices :
            obstacles_data[t].shadow_status = "SHADOWED"
                <=> \E o \in CriticalIndices : Qualifies(o, t) /\ AwayFromTakeoff(o)

\* C1 witness: one critical target is SHADOWED at a bearing difference
\* equal to the tolerance, and another critical target stays VISIBLE next
\* to a taller critical record at its own position (equal distance)
C1_Witness ==
    /\ TakeoffResolved
    /\ \E t \in CriticalIndices, o \in CriticalIndices :
          /\ obstacles_data[t].shadow_status = "SHADOWED"
          /\ Qualifies(o, t)
          /\ AwayFromTakeoff(o)
          /\ WrappedDifference(
                 Azimuth(shadow_results.takeoff_point[1], obstacles_data[t].point),
                 Azimuth(shadow_results.takeoff_point[1], obstacles_data[o].point))
               = params.shadow_tolerance
    /\ \E t \in CriticalIndices, o \in CriticalIndices :
          /\ o # t
          /\ obstacles_data[t].shadow_status = "VISIBLE"
          /\ obstacles_data[o].point.x = obstacles_data[t].point.x
          /\ obstacles_data[o].point.y = obstacles_data[t].point.y
          /\ obstacles_data[o].height > obstacles_data[t].height
          /\ AwayFromTakeoff(t)

\* C2 as stated: the shadower reported in shadowed_by is the first record in
\* input record order that satisfies the four shadow conditions for the
\* target.
C2_ReportedIsFirstQualifying ==
    TakeoffResolved =>
        \A t \in CriticalIndices :
            obstacles_data[t].shadow_status = "SHADOWED" =>
                \E o \in CriticalIndices :
                    /\ Qualifies(o, t)
                    /\ \A e \in CriticalIndices : e < o => ~ Qualifies(e, t)
                    /\ obstacles_data[t].shadowed_by
                           = Some(obstacles_data[o].feature.id)

\* C2, amended: the shadower reported in shadowed_by is the first record in
\* input record order that satisfies the four shadow conditions and lies at
\* a positive horizontal distance from the takeoff point, whether or not a
\* later qualifying record is nearer or taller.
C2_ReportedIsFirstQualifyingAwayFromTakeoff ==
    TakeoffResolved =>
        \A t \in CriticalIndices :
            obstacles_data[t].shadow_status = "SHADOWED" =>
                \E o \in CriticalIndices :
                    /\ Qualifies(o, t) /\ AwayFromTakeoff(o)
                    /\ \A e \in CriticalIndices :
                          e < o => ~ (Qualifies(e, t) /\ AwayFromTakeoff(e))
                    /\ obstacles_data[t].shadowed_by
                           = Some(obstacles_data[o].feature.id)

\* C2 witness: two records qualify for a target, the later of them is both
\* nearer to the takeoff point and taller, and the earlier one is reported
C2_Witness ==
    /\ TakeoffResolved
    /\ \E t \in CriticalIndices, o \in CriticalIndices, n \in CriticalIndices :
          /\ o < n
          /\ Qualifies(o, t) /\ AwayFromTakeoff(o)
          /\ Qualifies(n, t) /\ AwayFromTakeoff(n)
          /\ DistSq(shadow_results.takeoff_point[1], obstacles_data[n].point)
                 < DistSq(shadow_results.takeoff_point[1], obstacles_data[o].point)
          /\ obstacles_data[n].height > obstacles_data[o].height
          /\ obstacles_data[t].shadow_status = "SHADOWED"
          /\ obstacles_data[t].shadowed_by = Some(obstacles_data[o].feature.id)

\* C3: if critical obstacle B is reported as shadowed by critical obstacle
\* A, then A is not reported as shadowed by B.
C3_ShadowAsymmetry ==
    TakeoffResolved =>
        \A b \in CriticalIndices :
            obstacles_data[b].shadow_status = "SHADOWED" =>
                \A a \in CriticalIndices :
                    obstacles_data[b].shadowed_by = Some(obstacles_data[a].feature.id)
                    => ~ ( /\ obstacles_data[a].shadow_status = "SHADOWED"
                           /\ obstacles_data[a].shadowed_by
                                  = Some(obstacles_data[b].feature.id) )

\* C3 witness: B is reported as shadowed by A, and A is itself reported as
\* shadowed, by a third obstacle
C3_Witness ==
    /\ TakeoffResolved
    /\ \E a \in CriticalIndices, b \in CriticalIndices :
          /\ a # b
          /\ obstacles_data[b].shadow_status = "SHADOWED"
          /\ obstacles_data[b].shadowed_by = Some(obstacles_data[a].feature.id)
          /\ obstacles_data[a].shadow_status = "SHADOWED"

\* the shadow analysis has just returned and the surface layer gives no
\* takeoff reference point
AnalysedWithoutTakeoff ==
    pc = "apply" /\ get_takeoff_reference_point(surface_layer) = None

\* C5: when no takeoff reference point can be derived from the surface
\* layer the shadow analysis returns: its shadowed list is empty, every
\* critical obstacle is in its visible list and is written to the visible
\* layer as VISIBLE, and no obstacle is marked SHADOWED.
C5_NoTakeoffAllVisible ==
    AnalysedWithoutTakeoff =>
        /\ shadow_results.shadowed_obstacles = <<>>
        /\ \A i \in CriticalIndices :
              \E k \in 1..Len(shadow_results.visible_obstacles) :
                  shadow_results.visible_obstacles[k] = i
        /\ \A i \in 1..Len(obstacles_data) :
              obstacles_data[i].shadow_status # "SHADOWED"
        /\ LET after == apply_shadow_results(layers_info, obstacles_data,
                                             shadow_results, params.buffer_distance)
           IN  /\ after.shadowed_layer = <<>>
               /\ \A i \in CriticalIndices :
                     \E k \in 1..Len(after.visible_layer) :
                         /\ after.visible_layer[k].id = obstacles_data[i].feature.id
                         /\ after.visible_layer[k].shadow_status = "VISIBLE"

\* C5 witness: the analysis returned for a layer whose only polygon has too
\* few ring vertices, with a taller critical obstacle in front of another
\* critical obstacle on one bearing
C5_Witness ==
    /\ AnalysedWithoutTakeoff
    /\ surface_layer = <<PolygonFeature(TriangleRing)>>
    /\ \E t \in CriticalIndices, o \in CriticalIndices :
          /\ obstacles_data[o].point = Point3D(0, -1, 4)
          /\ obstacles_data[t].point = Point3D(0, -2, 1)

\* C6: after a shadow analysis with a takeoff point every non-critical
\* record has shadow_status NOT_APPLICABLE and an empty shadowed_by, is in
\* the visible list and not in the shadowed list, and every record of the
\* shadowed list is critical.
C6_NonCriticalNotApplicable ==
    TakeoffResolved =>
        /\ \A i \in (1..Len(obstacles_data)) \ CriticalIndices :
              /\ obstacles_data[i].shadow_status = "NOT_APPLICABLE"
              /\ obstacles_data[i].shadowed_by = None
              /\ \E k \in 1..Len(shadow_results.visible_obstacles) :
                    shadow_results.visible_obstacles[k] = i
              /\ \A k \in 1..Len(shadow_results.shadowed_obstacles) :
                    shadow_results.shadowed_obstacles[k] # i
        /\ \A k \in 1..Len(shadow_results.shadowed_obstacles) :
              shadow_results.shadowed_obstacles[k] \in CriticalIndices

\* C6 witness: a non-critical record stands behind a taller critical record
\* on its own bearing, and another critical record is SHADOWED
C6_Witness ==
    /\ TakeoffResolved
    /\ shadow_results.shadowed_obstacles # <<>>
    /\ \E i \in (1..Len(obstacles_data)) \ CriticalIndices, o \in CriticalIndices :
          /\ AwayFromTakeoff(o)
          /\ FourConditions(obstacles_data[o], obstacles_data[i],
                            shadow_results.takeoff_point[1], params.shadow_tolerance)

-----------------------------------------------------------------------------
(* Properties of the plugin run *)

\* the features of the current batch that analyze_single has been called on
Evaluated == { k \in 1..Len(features) : k < fidx }

\* some feature of the layer has the id
InLayer(layer, id) == \E k \in 1..Len(layer) : layer[k].id = id

\* t is the midpoint of a and b in x, y and z
IsMidpoint(t, a, b) ==
    /\ 2 * t.x = a.x + b.x
    /\ 2 * t.y = a.y + b.y
    /\ 2 * t.z = a.z + b.z

\* C4: for a surface polygon made by the surface builder, the takeoff
\* reference point the shadow analysis uses is the midpoint, in x, y and z,
\* of the near-left and near-right vertices (ring indices 3 and 4).
C4_TakeoffIsNearEdgeMidpoint ==
    (pc = "apply" /\ surface_layer = v_layer(params)) =>
        /\ shadow_results.takeoff_point # None
        /\ IsMidpoint(shadow_results.takeoff_point[1],
                      surface_layer[1].rings[1][4], surface_layer[1].rings[1][5])

\* C7: an obstacle with a geometry is CRITICAL if and only if the buffer of
\* radius buffer_distance around its point intersects the surface polygon,
\* and SAFE otherwise; it is written to the critical layer exactly when it
\* is CRITICAL and to the safe layer exactly when it is SAFE.
C7_CriticalIffBufferIntersects ==
    \A k \in Evaluated :
        features[k].geom_type # "empty" =>
            LET hit == buffer_intersects(Point2D(features[k].x, features[k].y),
                                         params.buffer_distance, surface_layer)
            IN  /\ \E i \in 1..Len(obstacles_data) :
                      /\ obstacles_data[i].feature.id = features[k].id
                      /\ obstacles_data[i].is_critical = hit
                /\ InLayer(layers_info.critical_layer, features[k].id) <=> hit
                /\ InLayer(layers_info.safe_layer, features[k].id) <=> ~ hit

\* the height the claim gives a feature
ExpectedHeight(feature) ==
    IF params.height_field # None /\ feature.attribute.kind = "number"
    THEN (IF feature.attribute.value >= params.min_height
          THEN feature.attribute.value ELSE params.min_height)
    ELSE params.min_height

TwoRuns ==
    /\ Len(history) = 2
    /\ history[1].surface_layer = history[2].surface_layer
    /\ history[1].params.buffer_distance <= history[2].params.buffer_distance

\* C9: an obstacle that is CRITICAL with buffer distance b is CRITICAL with
\* every buffer distance b' >= b, for the same surface and position.
C9_BufferMonotonicity ==
    TwoRuns =>
        \A i \in 1..Len(history[1].obstacles_data) :
            history[1].obstacles_data[i].is_critical =>
                \E j \in 1..Len(history[2].obstacles_data) :
                    /\ history[2].obstacles_data[j].feature
                           = history[1].obstacles_data[i].feature
                    /\ history[2].obstacles_data[j].is_critical

\* C9 witness: the buffer grew from 5 to 20 between two calls; one
\* obstacle was CRITICAL in both and another one only in the second
C9_Witness ==
    /\ TwoRuns
    /\ history[1].params.buffer_distance = 5
    /\ history[2].params.buffer_distance = 20
    /\ \E i \in 1..Len(history[1].obstacles_data) :
          /\ history[1].obstacles_data[i].is_critical
          /\ history[2].obstacles_data[i].is_critical
    /\ \E i \in 1..Len(history[1].obstacles_data) :
          /\ ~ history[1].obstacles_data[i].is_critical
          /\ history[2].obstacles_data[i].is_critical

\* C10: two evaluations of the same features with the same parameters and
\* surface give the same record lists and the same layer contents.
C10_Idempotence ==
    (Len(history) = 2 /\ history[1].params = history[2].params) =>
        /\ history[2].obstacles_data = history[1].obstacles_data
        /\ history[2].layers_info = history[1].layers_info
        /\ history[2].shadow_results = history[1].shadow_results

\* C10 witness: two calls with the same parameters, each of which
\* classified one obstacle as CRITICAL and another one as SAFE
C10_Witness ==
    /\ Len(history) = 2
    /\ history[1].params = history[2].params
    /\ \E i \in 1..Len(history[2].obstacles_data),
          j \in 1..Len(history[2].obstacles_data) :
          /\ history[2].obstacles_data[i].is_critical
          /\ ~ history[2].obstacles_data[j].is_critical
    /\ history[2].layers_info.critical_layer # <<>>

-----------------------------------------------------------------------------
(* Failing features, failing batches and failing calls *)

\* the feature is in one of the five layers of the obstacle analysis
InAnyLayer(id) ==
    \/ InLayer(layers_info.critical_layer, id)
    \/ InLayer(layers_info.safe_layer, id)
    \/ InLayer(layers_info.buffer_layer, id)
    \/ InLayer(layers_info.shadowed_layer, id)
    \/ InLayer(layers_info.visible_layer, id)

HasGeometry(feature) == feature.geom_type # "empty"

\* the features the batch loop has been through, in input order
EvaluatedFeatures == SubSeq(features, 1, fidx - 1)

\* C11: a feature without geometry fails its evaluation and adds nothing
\* to any layer; the batch skips it, and every other feature of the batch
\* is evaluated and recorded, the records being in the order of the input.
C11_FailedFeatureSkippedOthersRecorded ==
    /\ \A k \in Evaluated :
          ~ HasGeometry(features[k]) =>
              /\ analyze_single(features[k], params.height_field,
                                params.buffer_distance, params.min_height,
                                surface_layer, layers_info).raised
              /\ ~ InAnyLayer(features[k].id)
              /\ \A i \in 1..Len(obstacles_data) :
                    obstacles_data[i].feature.id # features[k].id
    /\ [i \in 1..Len(obstacles_data) |-> obstacles_data[i].feature]
           = SelectSeq(EvaluatedFeatures, HasGeometry)

\* the batch loop has been through every feature and the call has returned
BatchReturned ==
    /\ pc = "done"
    /\ params.include_obstacles
    /\ features # <<>>
    /\ fidx = Len(features) + 1

\* the call reported the obstacle analysis as failed
ReportedFailure ==
    \E i \in 1..Len(messages) :
        messages[i].level \in {"Warning", "Critical"}

\* the call reported the counts of an obstacle analysis
ReportedCounts ==
    \E i \in 1..Len(messages) : messages[i].text = "Obstacles Analysis:"

\* C12: when every feature of a non-empty batch has failed its evaluation,
\* the batch ends as an error and not as a result with zero obstacles.
C12_AllFailedIsHardError ==
    (BatchReturned /\ obstacles_data = <<>>) =>
        /\ ReportedFailure
        /\ ~ ReportedCounts

\* the call reported an error
ReportedError ==
    \E i \in 1..Len(messages) : messages[i].level = "Critical"

\* no surface polygon and no reference line have been made
NothingBuilt ==
    /\ surface_layer = <<>>
    /\ \A i \in 1..Len(project_layers) :
          project_layers[i] \notin {"reference_line", "RWY_TOFPA_AOC_TypeA"}

\* the layer is in the project and one feature of it is the input
Resolved(layer, use_selected_feature) ==
    /\ layer # None
    /\ layer[1].all >= 1
    /\ use_selected_feature => layer[1].selected = 1
    /\ ~ use_selected_feature => layer[1].all = 1

\* C13: the calculation is blocked, before any geometry is built, when
\* width_tofpa <= 0, when max_width_tofpa < width_tofpa and when the two
\* widths are equal; the violation is reported and neither the surface
\* polygon nor the reference line is made.
C13_WidthsValidated ==
    (/\ pc # "idle"
     /\ \/ params.width_tofpa <= 0
        \/ params.max_width_tofpa <= params.width_tofpa) =>
        /\ pc = "failed"
        /\ ReportedError
        /\ NothingBuilt

\* a step of Calculate: a call with an unresolved runway or threshold
\* feature fails with an error, and a call that fails changes neither the
\* layers of the project nor the exports nor the layers of earlier calls
CallFailsCleanly ==
    pc \in {"idle", "done", "failed"} =>
        /\ (\/ ~ Resolved(params'.runway_layer, params'.use_selected_feature)
            \/ ~ Resolved(params'.threshold_layer,
                          params'.use_selected_feature)) =>
               /\ pc' = "failed"
               /\ \E i \in 1..Len(messages') : messages'[i].level = "Critical"
        /\ pc' = "failed" =>
               /\ project_layers' = project_layers
               /\ exports' = exports
               /\ surface_layer' = surface_layer
               /\ layers_info' = layers_info

\* C14: a call for which the runway layer or the threshold layer is
\* missing, or does not resolve to a single feature, reports an error and
\* fails; and a call that fails has added no layer to the project, has
\* built no surface or obstacle layer and has run no export.
C14_FailureAddsNothing == [][CallFailsCleanly]_vars

\* C14 witness: after a call that built the surface, evaluated obstacles
\* and ran both exports, a call without the runway layer has failed
C14_Witness ==
    /\ pc = "failed"
    /\ params.runway_layer = None
    /\ ReportedError
    /\ Len(project_layers) >= 5
    /\ Len(exports) = 2
    /\ layers_info.critical_layer # <<>>

\* C15: a runway polyline of fewer than two vertices makes the call fail
\* with an error; no surface polygon and no reference line are made.
C15_ShortRunwayIsFatal ==
    (/\ pc # "idle"
     /\ Resolved(params.runway_layer, params.use_selected_feature)
     /\ Len(params.runway) < 2) =>
        /\ pc = "failed"
        /\ ReportedError
        /\ NothingBuilt
        /\ exports = <<>>

\* C15 witness: a call for a runway of one vertex has failed, with the
\* export requested
C15_Witness ==
    /\ pc = "failed"
    /\ Resolved(params.runway_layer, params.use_selected_feature)
    /\ Len(params.runway) = 1
    /\ params.export_kmz
    /\ messages = <<Message("Critical",
                            "Runway geometry must have at least 2 points!")>>

\* all vertices of the runway coincide
ZeroLength(geom) ==
    Len(geom) >= 2 /\ \A i \in 1..Len(geom) : DistSq(geom[1], geom[i]) = 0

\* C16: a runway of zero length is rejected before its azimuth is
\* computed: the call fails with an error and builds nothing.
C16_ZeroLengthRunwayRejected ==
    (pc # "idle" /\ ZeroLength(params.runway)) =>
        /\ pc = "failed"
        /\ ReportedError
        /\ NothingBuilt

-----------------------------------------------------------------------------
(* The geometry of the surface *)

\* the takeoff direction as a unit vector: from the first to the last
\* vertex of the runway for s = 0, the reverse otherwise; north for a
\* runway whose ends coincide (azimuth 0)
TakeoffVector ==
    LET geom == params.runway
        a    == IF params.s = 0 THEN geom[1] ELSE geom[Len(geom)]
        b    == IF params.s = 0 THEN geom[Len(geom)] ELSE geom[1]
    IN  IF a.x = b.x /\ a.y = b.y THEN <<0, 1>>
        ELSE <<Sign(b.x - a.x), Sign(b.y - a.y)>>

\* the directions azimuth + 90 ("left") and azimuth - 90 ("right")
LeftVector == <<TakeoffVector[2], - TakeoffVector[1]>>

RightVector == <<- TakeoffVector[2], TakeoffVector[1]>>

Planar(p) == <<p.x, p.y>>

Offset(xy, v, d) == <<xy[1] + v[1] * d, xy[2] + v[2] * d>>

SurfaceBuilt == surface_layer # <<>>

Ring == surface_layer[1].rings[1]

\* the centre-line points of the claims, in planar coordinates: the start,
\* the end of the divergence and the far end
DivergenceLength ==
    8 * ((params.max_width_tofpa \div 2) - (params.width_tofpa \div 2))

StartXY == Offset(Planar(params.threshold), TakeoffVector, params.cwy_length)

MidXY == Offset(StartXY, TakeoffVector, DivergenceLength)

FarXY == Offset(StartXY, TakeoffVector, 10000)

C19_Elevations ==
    SurfaceBuilt =>
        /\ pt_01D(params).z = params.ze
        /\ pt_02D(params).z = params.ze + DivergenceLength * 12
        /\ pt_03D(params).z = params.ze + 120000
        /\ \A i \in 1..7 : Ring[i].is3D
        /\ Ring[4].z = pt_01D(params).z /\ Ring[5].z = pt_01D(params).z
        /\ Ring[3].z = pt_02D(params).z /\ Ring[6].z = pt_02D(params).z
        /\ Ring[1].z = pt_03D(params).z /\ Ring[2].z = pt_03D(params).z

\* C19 witness: with ze = 2000 and the widths 180 and 1800 the mid
\* vertices are at 79760 and the far vertices at 122000
C19_Witness ==
    /\ SurfaceBuilt
    /\ params.ze = 2000
    /\ Ring[4].z = 2000
    /\ Ring[3].z = 79760
    /\ Ring[6].z = 79760
    /\ Ring[1].z = 122000

-----------------------------------------------------------------------------
(* The takeoff azimuth *)

\* the vertex the takeoff starts from and the vertex it heads for
TakeoffFrom(s) ==
    IF s = 0 THEN params.runway[1] ELSE params.runway[Len(params.runway)]

TakeoffTo(s) ==
    IF s = 0 THEN params.runway[Len(params.runway)] ELSE params.runway[1]

EndsDiffer == DistSq(TakeoffFrom(0), TakeoffTo(0)) > 0

\* the unit vector from a to b, for points on a common axis
AxisVector(a, b) == <<Sign(b.x - a.x), Sign(b.y - a.y)>>

\* the compass bearing of an axis vector, millidegrees in [0, 360000)
AxisBearing(v) ==
    CASE v = <<0, 1>> -> 0
      [] v = <<1, 0>> -> 90000
      [] v = <<0, -1>> -> 180000
      [] v = <<-1, 0>> -> 270000

OtherDirection == IF params.s = 0 THEN -1 ELSE 0

\* the azimuth is the bearing between the ends of the runway in the
\* direction s, whatever the vertices between them, and the surface runs
\* along it
AzimuthFromEnds ==
    EndsDiffer =>
        LET v == AxisVector(TakeoffFrom(params.s), TakeoffTo(params.s))
        IN  /\ azimuth(params) % 360000 = AxisBearing(v)
            /\ Ring[1].x + Ring[2].x = Ring[4].x + Ring[5].x + 20000 * v[1]
            /\ Ring[1].y + Ring[2].y = Ring[4].y + Ring[5].y + 20000 * v[2]

\* C21 as stated: the azimuth is the bearing from the first to the last
\* vertex for s = 0 and from the last to the first for s = -1; vertices
\* between them do not affect it; the two directions give azimuths 180
\* degrees apart.
C21_AzimuthByDirection ==
    SurfaceBuilt =>
        /\ AzimuthFromEnds
        /\ (azimuth([params EXCEPT !.s = OtherDirection]) - azimuth(params))
               % 360000 = 180000

\* C21, amended: as stated when the first and the last vertex differ; when
\* they coincide (a runway of zero length or a closed polyline) the
\* azimuth is 0 for both directions.
C21_AzimuthByDirectionOfDistinctEnds ==
    SurfaceBuilt =>
        /\ AzimuthFromEnds
        /\ EndsDiffer =>
               (azimuth([params EXCEPT !.s = OtherDirection]) - azimuth(params))
                   % 360000 = 180000
        /\ ~ EndsDiffer =>
               /\ azimuth(params) = 0
               /\ azimuth([params EXCEPT !.s = OtherDirection]) = 0

\* C21 witness: a surface built for s = -1 along a runway of three
\* vertices whose middle vertex lies off the line between the ends
C21_Witness ==
    /\ SurfaceBuilt
    /\ params.runway = RunwayBent
    /\ params.s = -1
    /\ azimuth(params) = 180000
    /\ azimuth([params EXCEPT !.s = 0]) = 0

-----------------------------------------------------------------------------
(* Bearings and elevation angles of the shadow analysis *)

\* C22: the bearing from the takeoff point to every obstacle lies in
\* [0, 360) degrees, and the bearing from a point to itself is computed
\* without an error and has one fixed value.
C22_BearingRange ==
    TakeoffResolved =>
        \A i \in 1..Len(obstacles_data) :
            LET takeoff_point == shadow_results.takeoff_point[1]
                bearing == calculate_bearing(takeoff_point, obstacles_data[i].point)
            IN  /\ 0 <= bearing
                /\ bearing < 360000
                /\ DistSq(takeoff_point, obstacles_data[i].point) = 0
                       => bearing = 0

\* a / sqrt(da) > b / sqrt(db) for da > 0 and db > 0, by the signs of a
\* and b and the comparison of the squares
TangentAbove(a, da, b, db) ==
    IF a >= 0 /\ b >= 0 THEN a * a * db > b * b * da
    ELSE IF a < 0 /\ b < 0 THEN a * a * db < b * b * da
    ELSE a >= 0

\* atan2(a, sqrt(da)) > atan2(b, sqrt(db)): at horizontal distance zero
\* the angle is 90, 0 or -90 degrees by the sign of the height difference
Atan2Above(a, da, b, db) ==
    IF da > 0 /\ db > 0 THEN TangentAbove(a, da, b, db)
    ELSE IF da = 0 /\ db > 0 THEN a > 0 \/ (a = 0 /\ b < 0)
    ELSE IF da > 0 /\ db = 0 THEN b < 0 \/ (b = 0 /\ a > 0)
    ELSE Sign(a) > Sign(b)

\* the height of the takeoff point: 0 for a point without z
TakeoffHeight ==
    IF shadow_results.takeoff_point[1].is3D
    THEN shadow_results.takeoff_point[1].z ELSE 0

\* the blockage test of the code for the records o (other) and t (target)
BlockageTest(o, t) ==
    check_elevation_shadow(shadow_results.takeoff_point[1],
                           obstacles_data[t].point, obstacles_data[t].height,
                           obstacles_data[o].point, obstacles_data[o].height)

TakeoffDistSq(i) == DistSq(shadow_results.takeoff_point[1], obstacles_data[i].point)

\* C23 as stated: the blockage test is true exactly when the elevation
\* angle atan2(height difference, horizontal distance) of the other
\* obstacle is greater than that of the target, also at a horizontal
\* distance of zero.
C23_BlockageIsAtan2Comparison ==
    TakeoffResolved =>
        \A o \in 1..Len(obstacles_data), t \in 1..Len(obstacles_data) :
            BlockageTest(o, t)
                <=> Atan2Above(obstacles_data[o].height - TakeoffHeight,
                               TakeoffDistSq(o),
                               obstacles_data[t].height - TakeoffHeight,
                               TakeoffDistSq(t))

\* C23, amended: when both horizontal distances are positive the test is
\* true exactly when the elevation angle of the other obstacle is greater
\* than that of the target; when either distance is zero it is false.
C23_BlockageIsAngleComparisonAwayFromTakeoff ==
    TakeoffResolved =>
        \A o \in 1..Len(obstacles_data), t \in 1..Len(obstacles_data) :
            BlockageTest(o, t)
                <=> /\ TakeoffDistSq(o) > 0
                    /\ TakeoffDistSq(t) > 0
                    /\ TangentAbove(obstacles_data[o].height - TakeoffHeight,
                                    TakeoffDistSq(o),
                                    obstacles_data[t].height - TakeoffHeight,
                                    TakeoffDistSq(t))

\* C23 witness: over a takeoff point 3 above the datum, an obstacle blocks
\* a farther one and is not blocked by it, and an obstacle of height 4 at
\* the takeoff point itself does not block a lower obstacle farther away
C23_Witness ==
    /\ TakeoffResolved
    /\ TakeoffHeight = 3
    /\ \E o \in 1..Len(obstacles_data), t \in 1..Len(obstacles_data),
          z \in 1..Len(obstacles_data) :
          /\ TakeoffDistSq(o) > 0
          /\ TakeoffDistSq(o) < TakeoffDistSq(t)
          /\ BlockageTest(o, t)
          /\ ~ BlockageTest(t, o)
          /\ TakeoffDistSq(z) = 0
          /\ obstacles_data[z].height = 4
          /\ obstacles_data[t].height < 4
          /\ ~ BlockageTest(z, t)

-----------------------------------------------------------------------------
(* The result lists and the records of the shadow analysis *)

Analysed == pc = "apply"

\* the positions of the result lists at which record i occurs
Occurrences(list, i) == { k \in 1..Len(list) : list[k] = i }

\* the records handed to the analysis are all there, in their order, and
\* each of them is in exactly one of the two result lists, once
RecordsPartitioned ==
    /\ Len(obstacles_data) = NumRecords
    /\ \A i \in 1..Len(obstacles_data) :
          /\ obstacles_data[i].feature.id = FeatureIdOf(i)
          /\ Cardinality(Occurrences(shadow_results.shadowed_obstacles, i))
             + Cardinality(Occurrences(shadow_results.visible_obstacles, i)) = 1
    /\ Len(shadow_results.shadowed_obstacles)
       + Len(shadow_results.visible_obstacles) = Len(obstacles_data)

\* the critical records are SHADOWED by someone or VISIBLE by no one
CriticalRecordsClassified ==
    \A i \in CriticalIndices :
        \/ /\ obstacles_data[i].shadow_status = "SHADOWED"
           /\ obstacles_data[i].shadowed_by # None
           /\ Occurrences(shadow_results.shadowed_obstacles, i) # {}
        \/ /\ obstacles_data[i].shadow_status = "VISIBLE"
           /\ obstacles_data[i].shadowed_by = None
           /\ Occurrences(shadow_results.visible_obstacles, i) # {}

ShadowAnalysisFrame ==
    pc = "shadow" =>
        /\ Len(obstacles_data') = Len(obstacles_data)
        /\ \A i \in 1..Len(obstacles_data) :
              /\ obstacles_data'[i].feature = obstacles_data[i].feature
              /\ obstacles_data'[i].point = obstacles_data[i].point
              /\ obstacles_data'[i].height = obstacles_data[i].height
              /\ obstacles_data'[i].is_critical = obstacles_data[i].is_critical
              /\ obstacles_data'[i].obstacle_info = obstacles_data[i].obstacle_info
        /\ surface_layer' = surface_layer

\* C25: the shadow analysis changes only the shadow_status and shadowed_by
\* of the records; feature, point, height, is_critical and obstacle_info
\* (with its intersection_type) and the surface layer are unchanged.
C25_ShadowAnalysisChangesStatusOnly == [][ShadowAnalysisFrame]_vars

\* C25 witness: the analysis has marked a critical record SHADOWED whose
\* obstacle_info still says that its buffer intersects the surface
C25_Witness ==
    /\ pc = "apply"
    /\ \E i \in 1..Len(obstacles_data) :
          /\ obstacles_data[i].shadow_status = "SHADOWED"
          /\ obstacles_data[i].shadowed_by # None
          /\ obstacles_data[i].obstacle_info.intersection_type
                 = "Buffer intersects TOFPA surface"
          /\ obstacles_data[i].obstacle_info.height = obstacles_data[i].height
    /\ \E i \in 1..Len(obstacles_data) :
          obstacles_data[i].shadow_status = "NOT_APPLICABLE"

\* the stages of a call are in order in every state: obstacles are
\* evaluated against the surface built from the parameters, and the shadow
\* analysis is enabled and has every feature of the batch behind it
StagesInOrder ==
    /\ pc \in {"obstacles", "shadow", "apply", "finalize"} =>
          /\ surface_layer = v_layer(params)
          /\ Len(surface_layer) = 1
          /\ Len(surface_layer[1].rings[1]) = 7
    /\ pc = "obstacles" => fidx <= Len(features)
    /\ pc \in {"shadow", "apply"} =>
          /\ params.enable_shadow_analysis
          /\ fidx = Len(features) + 1
          /\ total_obstacles = Len(obstacles_data)
          /\ Len(obstacles_data) <= Len(features)

\* a feature is evaluated only in the obstacle stage, and the shadow
\* analysis is entered only from the last iteration of the batch
StageSteps ==
    /\ pc \in {"shadow", "apply", "finalize"} =>
          /\ fidx' = fidx
          /\ total_obstacles' = total_obstacles
          /\ Len(obstacles_data') = Len(obstacles_data)
          /\ pc' # "obstacles"
    /\ fidx' = fidx + 1 => pc = "obstacles" /\ surface_layer # <<>>
    /\ (pc # "shadow" /\ pc' = "shadow") =>
          /\ pc = "obstacles"
          /\ fidx = Len(features)
          /\ params.enable_shadow_analysis
    /\ (pc = "obstacles" /\ fidx = Len(features)
           /\ ~ params.enable_shadow_analysis) => pc' = "finalize"

\* C26: stage ordering.  The surface polygon is built before any obstacle
\* is evaluated; the shadow analysis starts only after every feature of the
\* batch has been evaluated or skipped, and only when it is enabled; no
\* obstacle is evaluated after the shadow analysis has started.
C26_StageOrdering == [](StagesInOrder) /\ [][StageSteps]_vars

\* C26 witness: the shadow analysis is about to start on a batch of which
\* one feature was skipped and the others were evaluated
C26_Witness ==
    /\ pc = "shadow"
    /\ Len(features) >= 2
    /\ fidx = Len(features) + 1
    /\ Len(obstacles_data) = Len(features) - 1
    /\ obstacles_data # <<>>

-----------------------------------------------------------------------------
(* The shadowing relation *)

IsShadowed(i) == obstacles_data[i].shadow_status = "SHADOWED"

\* the records that the shadowed_by of record i names
Shadowers(i) ==
    IF obstacles_data[i].shadowed_by = None THEN {}
    ELSE { j \in 1..Len(obstacles_data) :
             obstacles_data[j].feature.id = obstacles_data[i].shadowed_by[1] }

\* the records reached from the records of `from` by following shadowed_by
\* between one and n times
RECURSIVE ReachedByShadowedBy(_, _)
ReachedByShadowedBy(from, n) ==
    IF n = 0 THEN {}
    ELSE LET next == UNION { Shadowers(i) : i \in from }
         IN  next \cup ReachedByShadowedBy(next, n - 1)

\* C27: the shadowing relation is acyclic: the record named by shadowed_by
\* is another record, strictly closer to the takeoff point, so following
\* shadowed_by never comes back to a record; the critical obstacles
\* nearest to the takeoff point and the tallest critical obstacles are
\* never SHADOWED.
C27_ShadowingAcyclic ==
    Analysed =>
        /\ \A i \in 1..Len(obstacles_data) :
              IsShadowed(i) =>
                  /\ shadow_results.takeoff_point # None
                  /\ Cardinality(Shadowers(i)) = 1
                  /\ \A j \in Shadowers(i) :
                        /\ j # i
                        /\ obstacles_data[j].is_critical
                        /\ TakeoffDistSq(j) < TakeoffDistSq(i)
                  /\ i \notin ReachedByShadowedBy({i}, Len(obstacles_data))
        /\ \A i \in CriticalIndices :
              (shadow_results.takeoff_point # None
                 /\ \A j \in CriticalIndices :
                       TakeoffDistSq(i) <= TakeoffDistSq(j))
                  => ~ IsShadowed(i)
        /\ \A i \in CriticalIndices :
              (\A j \in CriticalIndices :
                  obstacles_data[j].height <= obstacles_data[i].height)
                  => ~ IsShadowed(i)

\* C27 witness: a chain of two steps: a SHADOWED record whose shadower is
\* SHADOWED itself, by the nearest and tallest record, which is VISIBLE
C27_Witness ==
    /\ Analysed
    /\ \E i \in CriticalIndices, j \in CriticalIndices, k \in CriticalIndices :
          /\ IsShadowed(i) /\ Shadowers(i) = {j}
          /\ IsShadowed(j) /\ Shadowers(j) = {k}
          /\ obstacles_data[k].shadow_status = "VISIBLE"
          /\ TakeoffDistSq(k) < TakeoffDistSq(j)
          /\ TakeoffDistSq(j) < TakeoffDistSq(i)

-----------------------------------------------------------------------------
(* The order of the records *)

\* the orders in which a list of n records can be handed to the analysis
Orders(n) ==
    { f \in [1..n -> 1..n] : \A a \in 1..n, b \in 1..n : f[a] = f[b] => a = b }

Reordered(data, f) == [k \in 1..Len(data) |-> data[f[k]]]

\* the feature ids of the records of a list that are marked SHADOWED
ShadowedIds(data) ==
    { data[i].feature.id : i \in { k \in 1..Len(data) :
                                     data[k].shadow_status = "SHADOWED" } }

\* the records after an analysis of the records of the state in the order f
AnalysedInOrder(f) ==
    perform_shadow_analysis(Reordered(obstacles_data, f), surface_layer,
                            params.shadow_tolerance).data

\* the shadowed_by that an analysis in the order f gives to the record with
\* the feature id
ShadowedByInOrder(f, id) ==
    { r.shadowed_by : r \in { AnalysedInOrder(f)[k] : k \in 1..Len(obstacles_data) }
                              \cap { q \in { AnalysedInOrder(f)[k] :
                                               k \in 1..Len(obstacles_data) } :
                                       q.feature.id = id } }

\* C28: the set of SHADOWED obstacles is the same for every order of the
\* input list: an analysis of the same records in any other order marks
\* the records of the same feature ids.
C28_ShadowedSetIndependentOfOrder ==
    pc = "apply" =>
        \A f \in Orders(Len(obstacles_data)) :
            ShadowedIds(AnalysedInOrder(f)) = ShadowedIds(obstacles_data)

\* C28 witness: a record is SHADOWED in every order, and the record named
\* by its shadowed_by depends on the order
C28_Witness ==
    /\ pc = "apply"
    /\ ShadowedIds(obstacles_data) # {}
    /\ \E i \in 1..Len(obstacles_data) :
          /\ IsShadowed(i)
          /\ \E f \in Orders(Len(obstacles_data)) :
                /\ f[1] # 1
                /\ obstacles_data[i].shadowed_by
                      \notin ShadowedByInOrder(f, obstacles_data[i].feature.id)

-----------------------------------------------------------------------------
(* The counts of a batch *)

\* the features of the batch whose evaluation does not raise
EvaluatedWithoutError ==
    { k \in 1..Len(features) :
        ~ analyze_single(features[k], params.height_field,
                         params.buffer_distance, params.min_height,
                         surface_layer, NoLayers).raised }

\* the shadowed and visible layers that the batch would get from a surface
\* layer that gives no takeoff reference point
LayersWithoutTakeoff ==
    LET r == perform_shadow_analysis(obstacles_data, <<>>, params.shadow_tolerance)
    IN  apply_shadow_results(NoLayers, r.data,
            [shadowed_obstacles |-> r.shadowed_obstacles,
             visible_obstacles |-> r.visible_obstacles,
             takeoff_point |-> r.takeoff_point],
            params.buffer_distance)

\* C29: after a batch the critical and the safe layer together hold as
\* many features as the buffer layer, which is total_obstacles, the number
\* of inputs evaluated without error; critical_obstacles is the number of
\* features of the critical layer; with the shadow analysis enabled the
\* shadowed and the visible layer together hold critical_obstacles
\* features, also when no takeoff reference point is found.
C29_BatchCounts ==
    BatchReturned =>
        /\ Len(layers_info.critical_layer) + Len(layers_info.safe_layer)
              = Len(layers_info.buffer_layer)
        /\ Len(layers_info.buffer_layer) = total_obstacles
        /\ total_obstacles = Cardinality(EvaluatedWithoutError)
        /\ total_obstacles = Len(obstacles_data)
        /\ critical_obstacles = Len(layers_info.critical_layer)
        /\ critical_obstacles = Cardinality(CriticalIndices)
        /\ params.enable_shadow_analysis =>
              /\ Len(layers_info.shadowed_layer) + Len(layers_info.visible_layer)
                    = critical_obstacles
              /\ Len(LayersWithoutTakeoff.shadowed_layer) = 0
              /\ Len(LayersWithoutTakeoff.visible_layer) = critical_obstacles
        /\ ~ params.enable_shadow_analysis =>
              /\ layers_info.shadowed_layer = <<>>
              /\ layers_info.visible_layer = <<>>

\* C29 witness: a batch with the shadow analysis enabled in which a feature
\* was skipped and, of two critical obstacles, one is shadowed and one is
\* visible
C29_Witness ==
    /\ BatchReturned
    /\ params.enable_shadow_analysis
    /\ total_obstacles = 2
    /\ total_obstacles < Len(features)
    /\ Len(layers_info.shadowed_layer) = 1
    /\ Len(layers_info.visible_layer) = 1
    /\ critical_obstacles = 2

-----------------------------------------------------------------------------
(* A failure of the obstacle stage *)

\* the obstacle stage of a call with the parameters is entered and fails:
\* the obstacles layer is not in the project, the height field is not a
\* field of the layer, or the layer has no features for the request
ObstacleStageFails(prm) ==
    /\ prm.include_obstacles
    /\ prm.obstacles_layer_id # None
    /\ \/ prm.obstacles_layer = None
       \/ /\ prm.obstacles_layer # None
          /\ prm.height_field # None
          /\ \A name \in prm.obstacles_layer[1].field_names :
                name # prm.height_field[1]
       \/ Len(features) = 0

\* the exports a call is asked for, each with the surface and the
\* reference line only
SurfaceExports(prm) ==
    LET two == <<"RWY_TOFPA_AOC_TypeA", "reference_line">>
        kmz == [format |-> "kmz", layers |-> two]
        aixm == [format |-> "aixm", layers |-> two]
    IN  IF prm.export_kmz /\ prm.export_aixm THEN <<kmz, aixm>>
        ELSE IF prm.export_kmz THEN <<kmz>>
        ELSE IF prm.export_aixm THEN <<aixm>>
        ELSE <<>>

\* a call whose surface checks pass and whose obstacle stage fails builds
\* the surface, reports a warning and then the success, adds the reference
\* line and the surface to the project and nothing else, runs the exports
\* asked for on these two layers, and returns True
FailedStageKeepsSurface ==
    (/\ pc \in {"idle", "done", "failed"}
     /\ params' # params \/ pc' # pc \/ history' # history
     /\ surface_failure(params') = None
     /\ ObstacleStageFails(params')) =>
        /\ pc' = "done"
        /\ Len(messages') = 2
        /\ messages'[1].level = "Warning"
        /\ messages'[1].text = "Obstacles analysis failed"
        /\ messages'[2] = SuccessMessage
        /\ surface_layer' = v_layer(params')
        /\ Len(surface_layer') = 1
        /\ project_layers' = project_layers \o <<"reference_line", "RWY_TOFPA_AOC_TypeA">>
        /\ exports' = exports \o SurfaceExports(params')
        /\ Len(history') = Len(history) + 1
        /\ history'[Len(history')].surface_layer = surface_layer'
        /\ history'[Len(history')].params = params'

\* C30: a failure of the obstacle stage (obstacles layer not found, height
\* field not in the layer, no features selected or present) does not undo
\* or abort the surface build: it is reported as a warning, the surface and
\* the reference line remain in the project, the requested exports run on
\* those two layers, and create_tofpa_surface returns True.
C30_ObstacleFailureKeepsSurface == [][FailedStageKeepsSurface]_vars

\* C30 witness: a call with an obstacles layer that has features but not
\* the height field has returned: warning and success are reported, the two
\* layers are in the project and both exports have run on them
C30_Witness ==
    /\ pc = "done"
    /\ ObstacleStageFails(params)
    /\ params.obstacles_layer # None
    /\ features # <<>>
    /\ Len(messages) = 2
    /\ messages[1].level = "Warning"
    /\ messages[1].reason = "Height field not found in obstacles layer!"
    /\ project_layers = <<"reference_line", "RWY_TOFPA_AOC_TypeA">>
    /\ exports = SurfaceExports(params)
    /\ Len(exports) = 2
    /\ Len(history) = 1

=============================================================================
